---------------------------- MODULE Spec2Model ----------------------------
(***************************************************************************)
(* A model of the zerophish URL threat-scoring components.                 *)
(*                                                                         *)
(*   APD_*  src/src/components/AdvancedPhishingDetector.tsx                *)
(*   UA_*   src/src/components/URLAnalyzer.tsx                             *)
(*   CSA_*  src/src/components/CybersecurityAgent.tsx                      *)
(*   LAY_*  the layered agent (performLayeredAnalysis and its six layers)  *)
(*                                                                         *)
(* Strings are sequences of lexical atoms (words and punctuation marks),   *)
(* so that startsWith / endsWith / includes / trim / new URL(...) are the  *)
(* sequence operations the code performs on characters.  A nullable value  *)
(* is a sequence of length 0 (null) or 1.  Every Math.random() call site   *)
(* is a field of a record of draws; an analysis picks the record           *)
(* nondeterministically.  Display-only values that no rule reads           *)
(* (certificate issuer, expiry date, trust score, logo similarity, last    *)
(* reported date, url length) are left out of the result records, and the  *)
(* pictographs that open a displayed message are left out of its text.     *)
(***************************************************************************)
EXTENDS Integers, Sequences, FiniteSets, TLC

VARIABLES
    call,             \* SpecFn: the last call of a pure scoring function
    mounted,          \* which component the page mounts
    url,              \* useState(""): the text of the URL input
    aux,              \* part_002: the other fields of useState<AnalysisInput>
    isValidUrl,       \* URLAnalyzer useState(true)
    isAnalyzing,      \* useState(false)
    result,           \* useState(null): Null or Some(analysis result)
    analysisProgress, \* useState(0), in tenths of a percent
    currentStage,     \* useState(""): index into analysisStages, 0 for ""
    toast,            \* the last toast shown, "" for none
    run               \* the suspended async analyzeURL call (its continuation)

vars == <<call, mounted, url, aux, isValidUrl, isAnalyzing, result,
          analysisProgress, currentStage, toast, run>>

uiVars == <<mounted, url, aux, isValidUrl, isAnalyzing, result,
            analysisProgress, currentStage, toast, run>>

---------------------------------------------------------------------------
(* Nullable values *)

Null == <<>>

Some(x) == <<x>>

IsNull(v) == v = <<>>

Val(v) == v[1]

Min(S) == CHOOSE x \in S : \A y \in S : x <= y

Max(S) == CHOOSE x \in S : \A y \in S : x >= y

mathMin(a, b) == IF a < b THEN a ELSE b

---------------------------------------------------------------------------
(* Strings: sequences of atoms *)

startsWith(s, p) == Len(s) >= Len(p) /\ SubSeq(s, 1, Len(p)) = p

endsWith(s, p) == Len(s) >= Len(p) /\ SubSeq(s, Len(s) - Len(p) + 1, Len(s)) = p

includes(s, p) == \E i \in 1..(Len(s) - Len(p) + 1) : SubSeq(s, i, i + Len(p) - 1) = p

\* String.prototype.trim: leading and trailing white space removed
trim(s) ==
    LET keep == {i \in 1..Len(s) : s[i] # " "}
    IN  IF keep = {} THEN <<>> ELSE SubSeq(s, Min(keep), Max(keep))

\* the atoms of the model that hold an upper-case letter, and their lower case
lowerAtom(a) ==
    CASE a = "PayPal" -> "paypal"
      [] a = "paypaI" -> "paypai"
      [] a = "Russia" -> "russia"
      [] a = "Germany" -> "germany"
      [] OTHER -> a

toLowerCase(s) == [i \in 1..Len(s) |-> lowerAtom(s[i])]

\* String.prototype.split('.').length
splitDotLength(s) == Cardinality({i \in 1..Len(s) : s[i] = "."}) + 1

\* a run of one to three decimal digits: [0-9]{1,3}
digits13 == {"192", "168", "1", "10", "0"}

\* the regular expression (?:[0-9]{1,3}\.){3}[0-9]{1,3} matched against all of s
isDottedQuad(s) ==
    /\ Len(s) = 7
    /\ \A i \in {1, 3, 5, 7} : s[i] \in digits13
    /\ \A i \in {2, 4, 6} : s[i] = "."

---------------------------------------------------------------------------
(* new URL(text) *)

schemes == {"https://", "http://"}

protocolOf(scheme) == IF scheme = "https://" THEN "https:" ELSE "http:"

\* Null when the constructor throws (no scheme, empty host, white space in
\* the host); the parser strips leading and trailing spaces and lower-cases
\* the host.
newURL(text) ==
    LET t == trim(text)
        rest == IF t = <<>> THEN <<>> ELSE Tail(t)
        slashes == {i \in 1..Len(rest) : rest[i] = "/"}
        hostEnd == IF slashes = {} THEN Len(rest) ELSE Min(slashes) - 1
        host == SubSeq(rest, 1, hostEnd)
        path == IF slashes = {} THEN <<"/">> ELSE SubSeq(rest, hostEnd + 1, Len(rest))
    IN  IF t = <<>> \/ t[1] \notin schemes \/ host = <<>>
           \/ \E i \in 1..Len(host) : host[i] \in {" "} \cup schemes
        THEN Null
        ELSE Some([protocol |-> protocolOf(t[1]),
                   hostname |-> toLowerCase(host),
                   pathname |-> path,
                   href     |-> <<t[1]>> \o toLowerCase(host) \o path])

---------------------------------------------------------------------------
(* Math.random(): one record of draws per analysis *)

\* bounds on the draws of one analysis (the code's ranges are larger)
MaxFired == 1

MaxCredentialForms == 1

MaxHiddenFields == 4

NumAges == 2

NumBrands == 2

MaxReported == 6

\* every call site at its most likely outcome
baseDraws ==
    [uiCloning |-> FALSE, credentialForms |-> 0, obfuscatedJS |-> FALSE,
     hiddenFields |-> 0, externalPost |-> FALSE, redirects |-> FALSE,
     keylogger |-> FALSE, screenCapture |-> FALSE, maliciousRequests |-> FALSE,
     mining |-> FALSE, exploitation |-> FALSE, domainAge |-> 1,
     certificate |-> TRUE, brand |-> 1, reportedPhishing |-> 1,
     reportedClean |-> 0, categories |-> 1]

\* the other outcomes of a call site
otherDraws(site) ==
    CASE site = "credentialForms" -> 1..MaxCredentialForms
      [] site = "hiddenFields" -> 3..MaxHiddenFields
      [] site = "domainAge" -> 2..NumAges
      [] site = "brand" -> 2..NumBrands
      [] site = "reportedPhishing" -> 2..MaxReported
      [] site = "reportedClean" -> 1..2
      [] site = "categories" -> 2..3
      [] site = "certificate" -> {FALSE}
      [] OTHER -> {TRUE}

deviate(D) ==
    D \cup UNION {UNION {{[d EXCEPT ![site] = v] : v \in otherDraws(site)}
                         : site \in DOMAIN baseDraws} : d \in D}

RECURSIVE drawsUpTo(_)
drawsUpTo(k) == IF k = 0 THEN {baseDraws} ELSE deviate(drawsUpTo(k - 1))

\* the records of draws an analysis may see: at most MaxFired call sites
\* leave their most likely outcome
Draws == drawsUpTo(MaxFired)

---------------------------------------------------------------------------
(* AdvancedPhishingDetector.tsx: layer evaluators *)

APD_tunnelServices ==
    << <<"trycloudflare", ".", "com">>, <<"ngrok", ".", "io">>,
       <<"localtunnel", ".", "me">>, <<"serveo", ".", "net">>,
       <<"pagekite", ".", "me">>, <<"localhost", ".", "run">>,
       <<"telebit", ".", "cloud">>, <<"tunnelto", ".", "dev">>,
       <<"bore", ".", "pub">>, <<"loca", ".", "lt">>,
       <<"zrok", ".", "io">>, <<"pinggy", ".", "io">> >>

\* Array.prototype.find over a list of services, || null
findService(services, domain) ==
    LET hit == {i \in 1..Len(services) : includes(domain, services[i])}
    IN  IF hit = {} THEN Null ELSE Some(services[Min(hit)])

\* atoms ending in eight or more of [a-f0-9], starting with four or more,
\* holding random[0-9]+, temp[0-9]+, or eight or more digits
endsHex8 == {"deadbeef"}

startsHex4 == {"deadbeef", "cafe"}

hasRandomNum == {"random7"}

hasTempNum == {"temp42"}

hasDigits8 == {"12345678"}

\* /[a-f0-9]{8,}-[a-f0-9]{4,}|random[0-9]+|temp[0-9]+|[0-9]{8,}/.test(domain)
APD_dynamicPattern(domain) ==
    \/ \E i \in 1..(Len(domain) - 2) :
          domain[i] \in endsHex8 /\ domain[i + 1] = "-" /\ domain[i + 2] \in startsHex4
    \/ \E i \in 1..Len(domain) : domain[i] \in hasRandomNum \cup hasTempNum \cup hasDigits8

APD_analyzeInfrastructure(urlObj) ==
    LET domain == toLowerCase(urlObj.hostname)
        tunnelService == findService(APD_tunnelServices, domain)
        isDynamicDomain == APD_dynamicPattern(domain) \/ ~IsNull(tunnelService)
        f1 == IF ~IsNull(tunnelService)
              THEN << <<"CRITICAL: Tunnel service detected ">> \o Val(tunnelService) >>
              ELSE <<>>
        f2 == IF isDynamicDomain
              THEN << <<"Dynamic/temporary domain pattern detected">> >>
              ELSE <<>>
        f3 == IF IsNull(tunnelService) /\ ~isDynamicDomain
              THEN << <<"No infrastructure red flags detected">> >>
              ELSE <<>>
    IN  [tunnelService |-> tunnelService, isDynamicDomain |-> isDynamicDomain,
         findings |-> f1 \o f2 \o f3]

APD_legitimateBrands ==
    {"google", "microsoft", "facebook", "amazon", "apple", "paypal", "netflix", "dropbox"}

APD_analyzeVisuals(urlObj, d) ==
    LET domain == toLowerCase(urlObj.hostname)
        logoImpersonation ==
            \E brand \in APD_legitimateBrands :
                includes(domain, <<brand>>) /\ ~endsWith(domain, <<brand, ".", "com">>)
        uiCloning == d.uiCloning
        f1 == IF logoImpersonation
              THEN << <<"CRITICAL: Brand logo impersonation detected">> >> ELSE <<>>
        f2 == IF uiCloning
              THEN << <<"Suspicious UI layout matching legitimate services">> >> ELSE <<>>
        f3 == IF ~logoImpersonation /\ ~uiCloning
              THEN << <<"No visual impersonation detected">> >> ELSE <<>>
    IN  [logoImpersonation |-> logoImpersonation, uiCloning |-> uiCloning,
         findings |-> f1 \o f2 \o f3]

APD_analyzeHTML(urlObj, d) ==
    LET credentialForms == d.credentialForms
        obfuscatedJS == d.obfuscatedJS
        hiddenFields == d.hiddenFields
        externalPostTargets ==
            IF d.externalPost
            THEN << <<"malicious-collector.net">>, <<"data-harvester.com">> >>
            ELSE <<>>
        f1 == IF credentialForms > 0
              THEN << <<ToString(credentialForms), " credential input form(s) detected">> >>
              ELSE <<>>
        f2 == IF obfuscatedJS
              THEN << <<"Obfuscated JavaScript code detected">> >> ELSE <<>>
        f3 == IF hiddenFields > 3
              THEN << <<ToString(hiddenFields), " hidden form fields detected">> >>
              ELSE <<>>
        f4 == IF d.externalPost
              THEN << <<"Form posts to external targets: ", "malicious-collector.net",
                        ", ", "data-harvester.com">> >>
              ELSE <<>>
        found == f1 \o f2 \o f3 \o f4
    IN  [credentialForms |-> credentialForms, obfuscatedJS |-> obfuscatedJS,
         hiddenFields |-> hiddenFields, externalPostTargets |-> externalPostTargets,
         findings |-> IF Len(found) = 0
                      THEN << <<"No malicious HTML patterns detected">> >>
                      ELSE found]

APD_simulateBehavior(urlObj, d) ==
    LET f1 == IF d.redirects
              THEN << <<"Dynamic redirects triggered by user interaction">> >> ELSE <<>>
        f2 == IF d.keylogger
              THEN << <<"Potential keylogger JavaScript detected">> >> ELSE <<>>
        f3 == IF d.screenCapture
              THEN << <<"Screen capture JavaScript patterns detected">> >> ELSE <<>>
        found == f1 \o f2 \o f3
    IN  [findings |-> IF Len(found) = 0
                      THEN << <<"No suspicious behavioral patterns detected">> >>
                      ELSE found]

APD_executeSandbox(urlObj, d) ==
    LET f1 == IF d.maliciousRequests
              THEN << <<"Requests to known malicious domains detected">> >> ELSE <<>>
        f2 == IF d.mining
              THEN << <<"Cryptocurrency mining scripts detected">> >> ELSE <<>>
        f3 == IF d.exploitation
              THEN << <<"Browser exploitation attempts detected">> >> ELSE <<>>
        found == f1 \o f2 \o f3
    IN  [findings |-> IF Len(found) = 0
                      THEN << <<"No malicious sandbox behavior detected">> >>
                      ELSE found]

---------------------------------------------------------------------------
(* AdvancedPhishingDetector.tsx: helpers *)

APD_simulateDomainAge(d) ==
    LET ages == <<"< 1 month", "3 months", "6 months", "1 year", "2+ years", "5+ years">>
    IN  ages[d.domainAge]

APD_getRandomBrand(d) ==
    LET brands == <<"PayPal", "Amazon", "Microsoft", "Google", "Apple", "Facebook", "Netflix">>
    IN  brands[d.brand]

\* categories.slice(0, Math.floor(Math.random() * 3) + 1)
getRandomThreatCategories(d) ==
    LET categories ==
            <<"Phishing", "Malware", "Spam", "Credential Theft", "Brand Impersonation">>
    IN  SubSeq(categories, 1, d.categories)

legitimateSites == {"google", "facebook", "amazon", "microsoft", "apple", "paypal", "netflix"}

APD_checkForMimickedSites(domain) ==
    \E site \in legitimateSites :
        includes(domain, <<site>>) /\ ~endsWith(domain, <<site, ".", "com">>)

suspiciousKeywords == {"verify", "secure", "account", "update", "confirm", "login"}

checkSuspiciousKeywords(fullUrl) ==
    Cardinality({keyword \in suspiciousKeywords : includes(fullUrl, <<keyword>>)}) >= 2

APD_suspiciousTLDs ==
    {"tk", "ml", "ga", "cf", "bit", "cc", "pw", "top", "click", "download", "science",
     "work", "cricket", "accountant", "review", "country", "stream", "gq", "racing",
     "party", "faith", "bid", "win", "date", "loan", "site", "website", "online",
     "agency"}

\* /\.(tk|ml|...)$/i.test(domain)
matchesTLD(domain, tlds) ==
    Len(domain) >= 2 /\ domain[Len(domain) - 1] = "." /\ domain[Len(domain)] \in tlds

shorteners == { <<"bit", ".", "ly">>, <<"tinyurl">>, <<"t", ".", "co">>, <<"goo", ".", "gl">> }

\* lines 129-148: the feature record
APD_features(urlToAnalyze, urlObj, infrastructureResult, htmlResult, d) ==
    LET domain == toLowerCase(urlObj.hostname)
        path == toLowerCase(urlObj.pathname)
        fullUrl == toLowerCase(urlToAnalyze)
    IN  [hasIPAddress |-> isDottedQuad(domain),
         suspiciousTLD |-> matchesTLD(domain, APD_suspiciousTLDs),
         suspiciousDomain |->
             \/ \E sh \in shorteners : includes(domain, sh)
             \/ \E i \in 1..(Len(domain) - 6) : isDottedQuad(SubSeq(domain, i, i + 6)),
         hasSubdomains |-> splitDotLength(domain) > 3,
         usesHTTPS |-> urlObj.protocol = "https:",
         domainAge |-> APD_simulateDomainAge(d),
         hasSpecialChars |-> Len(path) > 1,
         mimicsKnownSites |-> APD_checkForMimickedSites(domain),
         hasRedirect |-> \E w \in {"redirect", "r=", "url=", "goto="} : includes(path, <<w>>),
         containsSuspiciousKeywords |-> checkSuspiciousKeywords(fullUrl),
         tunnelService |-> infrastructureResult.tunnelService,
         isDynamicDomain |-> infrastructureResult.isDynamicDomain,
         credentialForms |-> htmlResult.credentialForms,
         obfuscatedJS |-> htmlResult.obfuscatedJS,
         hiddenFields |-> htmlResult.hiddenFields,
         externalPostTargets |-> htmlResult.externalPostTargets]

---------------------------------------------------------------------------
(* AdvancedPhishingDetector.tsx: aggregation and explanation *)

\* JavaScript truthiness of a count and of a nullable string
pts(cond, n) == IF cond THEN n ELSE 0

\* calculateAdvancedRiskScore returning the sum without Math.min(100, score)
APD_calculateAdvancedRiskScore_uncapped(features, certificate, brandAnalysis) ==
    pts(~IsNull(features.tunnelService), 45)
  + pts(features.isDynamicDomain, 30)
  + pts(features.hasIPAddress, 35)
  + pts(features.suspiciousTLD, 25)
  + pts(brandAnalysis.brandImpersonation, 40)
  + pts(brandAnalysis.uiCloning, 35)
  + pts(features.credentialForms > 0, 30)
  + pts(features.obfuscatedJS, 35)
  + pts(Len(features.externalPostTargets) > 0, 25)
  + pts(~certificate.isValid, 25)
  + pts(~features.usesHTTPS, 20)
  + pts(features.mimicsKnownSites, 30)

APD_calculateAdvancedRiskScore(features, certificate, brandAnalysis) ==
    LET score ==
            pts(~IsNull(features.tunnelService), 45)
          + pts(features.isDynamicDomain, 30)
          + pts(features.hasIPAddress, 35)
          + pts(features.suspiciousTLD, 25)
          + pts(brandAnalysis.brandImpersonation, 40)
          + pts(brandAnalysis.uiCloning, 35)
          + pts(features.credentialForms > 0, 30)
          + pts(features.obfuscatedJS, 35)
          + pts(Len(features.externalPostTargets) > 0, 25)
          + pts(~certificate.isValid, 25)
          + pts(~features.usesHTTPS, 20)
          + pts(features.mimicsKnownSites, 30)
    IN  mathMin(100, score)

APD_getAdvancedVerdict(score) ==
    IF score >= 70 THEN "CONFIRMED_PHISHING"
    ELSE IF score >= 40 THEN "SUSPICIOUS"
    ELSE "LEGITIMATE"

APD_getAdvancedThreatLevel(score) ==
    IF score >= 65 THEN "HIGH"
    ELSE IF score >= 35 THEN "MEDIUM"
    ELSE "LOW"

\* calculateConfidence capped at 100 instead of 99
APD_calculateConfidence_cap100(features, certificate, brandAnalysis, score) ==
    mathMin(100, 80
          + pts(~IsNull(features.tunnelService) \/ brandAnalysis.brandImpersonation, 15)
          + pts(certificate.isValid /\ features.usesHTTPS, 5)
          + pts(score > 70 \/ score < 20, 10))

APD_calculateConfidence(features, certificate, brandAnalysis, score) ==
    LET confidence ==
            80
          + pts(~IsNull(features.tunnelService) \/ brandAnalysis.brandImpersonation, 15)
          + pts(certificate.isValid /\ features.usesHTTPS, 5)
          + pts(score > 70 \/ score < 20, 10)
    IN  mathMin(99, confidence)

APD_generateRedFlags(analysis) ==
    (IF ~IsNull(analysis.infrastructureResult.tunnelService)
     THEN << <<"Tunnel service detected: ">> \o Val(analysis.infrastructureResult.tunnelService) >>
     ELSE <<>>)
    \o (IF analysis.visualResult.logoImpersonation
        THEN << <<"Brand impersonation detected">> >> ELSE <<>>)
    \o (IF analysis.htmlResult.credentialForms > 0
        THEN << <<"Credential harvesting forms present">> >> ELSE <<>>)
    \o (IF analysis.features.obfuscatedJS
        THEN << <<"Obfuscated JavaScript detected">> >> ELSE <<>>)
    \o (IF Len(analysis.features.externalPostTargets) > 0
        THEN << <<"External data collection endpoints">> >> ELSE <<>>)
    \o (IF analysis.brandAnalysis.uiCloning
        THEN << <<"UI cloning detected">> >> ELSE <<>>)

\* `${brandAnalysis.suspectedBrand}` of a null prints "null"
APD_generateAdvancedRecommendations(features, isPhishing, certificate, brandAnalysis, threatIntel, verdict) ==
    LET recommendations ==
            (IF verdict = "CONFIRMED_PHISHING"
             THEN << <<"IMMEDIATE ACTION: Block domain and warn users">>,
                     <<"DO NOT enter any personal information">>,
                     <<"Contact the legitimate organization directly">> >>
             ELSE IF verdict = "SUSPICIOUS"
             THEN << <<"PROCEED WITH EXTREME CAUTION">>,
                     <<"Multiple risk indicators detected">> >>
             ELSE <<>>)
            \o (IF ~IsNull(features.tunnelService)
                THEN << <<"Tunnel service risk: ">> \o Val(features.tunnelService) >>
                ELSE <<>>)
            \o (IF brandAnalysis.brandImpersonation
                THEN << <<"Suspected impersonation of ",
                          IF IsNull(brandAnalysis.suspectedBrand) THEN "null"
                          ELSE Val(brandAnalysis.suspectedBrand)>> >>
                ELSE <<>>)
            \o (IF ~certificate.isValid
                THEN << <<"Invalid SSL certificate - security risk">> >> ELSE <<>>)
            \o (IF features.credentialForms > 0
                THEN << <<"Credential harvesting forms detected">> >> ELSE <<>>)
            \o (IF threatIntel.reportedTimes > 5
                THEN << <<"Reported ", ToString(threatIntel.reportedTimes),
                          " times in threat databases">> >>
                ELSE <<>>)
    IN  IF Len(recommendations) = 0
        THEN << <<"Maintain standard security practices">> >>
        ELSE recommendations

\* lines 113-222 of analyzeURL: the synchronous computation of the result
APD_analysis(urlToAnalyze, urlObj, d) ==
    LET infrastructureResult == APD_analyzeInfrastructure(urlObj)
        visualResult == APD_analyzeVisuals(urlObj, d)
        htmlResult == APD_analyzeHTML(urlObj, d)
        behavioralResult == APD_simulateBehavior(urlObj, d)
        sandboxResult == APD_executeSandbox(urlObj, d)
        features == APD_features(urlToAnalyze, urlObj, infrastructureResult, htmlResult, d)
        certificate ==
            [isValid |-> ~features.hasIPAddress /\ IsNull(features.tunnelService)
                         /\ d.certificate]
        brandAnalysis ==
            [suspectedBrand |-> IF features.mimicsKnownSites
                                THEN Some(APD_getRandomBrand(d)) ELSE Null,
             brandImpersonation |-> features.mimicsKnownSites \/ visualResult.logoImpersonation,
             uiCloning |-> visualResult.uiCloning]
        riskScore == APD_calculateAdvancedRiskScore(features, certificate, brandAnalysis)
        isPhishing == riskScore >= 45
        confidence == APD_calculateConfidence(features, certificate, brandAnalysis, riskScore)
        verdict == APD_getAdvancedVerdict(riskScore)
        threatLevel == APD_getAdvancedThreatLevel(riskScore)
        keyRedFlags ==
            APD_generateRedFlags([infrastructureResult |-> infrastructureResult,
                                  visualResult |-> visualResult,
                                  htmlResult |-> htmlResult,
                                  features |-> features,
                                  brandAnalysis |-> brandAnalysis])
        threatIntel ==
            [reportedTimes |-> IF isPhishing THEN d.reportedPhishing ELSE d.reportedClean,
             threatCategories |-> IF isPhishing THEN getRandomThreatCategories(d) ELSE <<>>]
        recommendations ==
            APD_generateAdvancedRecommendations(features, isPhishing, certificate,
                                                brandAnalysis, threatIntel, verdict)
    IN  [url |-> urlToAnalyze,
         isPhishing |-> isPhishing,
         riskScore |-> riskScore,
         confidence |-> confidence,
         features |-> features,
         certificate |-> certificate,
         brandAnalysis |-> brandAnalysis,
         recommendations |-> recommendations,
         threatIntel |-> threatIntel,
         advancedAnalysis |->
             [infrastructureFindings |-> infrastructureResult.findings,
              visualFindings |-> visualResult.findings,
              htmlFindings |-> htmlResult.findings,
              behavioralFindings |-> behavioralResult.findings,
              sandboxFindings |-> sandboxResult.findings,
              keyRedFlags |-> keyRedFlags,
              verdict |-> verdict,
              threatLevel |-> threatLevel]]

---------------------------------------------------------------------------
(* CybersecurityAgent.tsx: feature extraction, aggregation, explanation *)

\* A date string is [parsable, ageDays, text]: whether new Date(text) is a
\* valid date, and then how many days before now it lies.
unparsableDate(text) == [parsable |-> FALSE, ageDays |-> 0, text |-> text]

dateDaysAgo(n) == [parsable |-> TRUE, ageDays |-> n, text |-> "date"]

\* ageInDays < n, false when ageInDays is NaN
ageInDaysLess(registrationDate, n) ==
    registrationDate.parsable /\ registrationDate.ageDays < n

CSA_tunnelServices ==
    << <<"trycloudflare", ".", "com">>, <<"ngrok", ".", "io">>,
       <<"localtunnel", ".", "me">>, <<"serveo", ".", "net">>,
       <<"pagekite", ".", "me">>, <<"localhost", ".", "run">>,
       <<"telebit", ".", "cloud">>, <<"tunnelto", ".", "dev">> >>

\* /[a-f0-9]{8,}-[a-f0-9]{4,}|random[0-9]+|temp[0-9]+/.test(domain)
CSA_dynamicPattern(domain) ==
    \/ \E i \in 1..(Len(domain) - 2) :
          domain[i] \in endsHex8 /\ domain[i + 1] = "-" /\ domain[i + 2] \in startsHex4
    \/ \E i \in 1..Len(domain) : domain[i] \in hasRandomNum \cup hasTempNum

CSA_suspiciousTLDs ==
    {"tk", "ml", "ga", "cf", "bit", "cc", "pw", "top", "click", "download", "science"}

CSA_checkBrandImpersonation(domain) ==
    \E brand \in legitimateSites :
        includes(domain, <<brand>>) /\ ~endsWith(domain, <<brand, ".", "com">>)

CSA_checkMimickedSites(domain) ==
    \E site \in legitimateSites :
        includes(domain, <<site>>) /\ ~endsWith(domain, <<site, ".", "com">>)

CSA_calculateDomainAge(whoisData) ==
    IF IsNull(whoisData) THEN "Unknown"
    ELSE LET regDate == Val(whoisData).registrationDate
         IN  IF ageInDaysLess(regDate, 30) THEN "< 1 month"
             ELSE IF ageInDaysLess(regDate, 90) THEN "< 3 months"
             ELSE IF ageInDaysLess(regDate, 365) THEN "< 1 year"
             ELSE IF ageInDaysLess(regDate, 1825) THEN "< 5 years"
             ELSE "5+ years"

\* analyzeFeatures with isDynamicDomain from the pattern alone, without its
\* `|| !!tunnelService`
CSA_analyzeFeatures_patternOnly(urlObj, ipInfo, whoisData, d) ==
    LET domain == toLowerCase(urlObj.hostname)
        fullUrl == toLowerCase(urlObj.href)
        tunnelService == findService(CSA_tunnelServices, domain)
    IN  [tunnelService |-> tunnelService,
         isDynamicDomain |-> CSA_dynamicPattern(domain),
         credentialForms |-> d.credentialForms,
         obfuscatedJS |-> d.obfuscatedJS,
         brandImpersonation |-> CSA_checkBrandImpersonation(domain),
         hasIPAddress |-> isDottedQuad(domain),
         suspiciousTLD |-> matchesTLD(domain, CSA_suspiciousTLDs),
         usesHTTPS |-> urlObj.protocol = "https:",
         hasSubdomains |-> splitDotLength(domain) > 3,
         domainAge |-> CSA_calculateDomainAge(whoisData),
         mimicsKnownSites |-> CSA_checkMimickedSites(domain),
         containsSuspiciousKeywords |-> checkSuspiciousKeywords(fullUrl)]

CSA_analyzeFeatures(urlObj, ipInfo, whoisData, d) ==
    LET domain == toLowerCase(urlObj.hostname)
        fullUrl == toLowerCase(urlObj.href)
        tunnelService == findService(CSA_tunnelServices, domain)
    IN  [tunnelService |-> tunnelService,
         isDynamicDomain |-> CSA_dynamicPattern(domain) \/ ~IsNull(tunnelService),
         credentialForms |-> d.credentialForms,
         obfuscatedJS |-> d.obfuscatedJS,
         brandImpersonation |-> CSA_checkBrandImpersonation(domain),
         hasIPAddress |-> isDottedQuad(domain),
         suspiciousTLD |-> matchesTLD(domain, CSA_suspiciousTLDs),
         usesHTTPS |-> urlObj.protocol = "https:",
         hasSubdomains |-> splitDotLength(domain) > 3,
         domainAge |-> CSA_calculateDomainAge(whoisData),
         mimicsKnownSites |-> CSA_checkMimickedSites(domain),
         containsSuspiciousKeywords |-> checkSuspiciousKeywords(fullUrl)]

CSA_analyzeCertificate(urlObj, d) ==
    [isValid |-> urlObj.protocol = "https:" /\ d.certificate]

suspiciousCountries == {"Russia", "China", "Nigeria"}

\* calculateAdvancedRiskScore with `score = 40` for `score += 40` on the
\* brand-impersonation line
CSA_calculateAdvancedRiskScore_assign(features, certificate, ipInfo, whoisData) ==
    LET before ==
            pts(~IsNull(features.tunnelService), 45)
          + pts(features.isDynamicDomain, 30)
          + pts(features.hasIPAddress, 35)
          + pts(features.suspiciousTLD, 25)
          + pts(~IsNull(ipInfo) /\ Val(ipInfo).country \in suspiciousCountries, 20)
          + (IF IsNull(whoisData) THEN 0
             ELSE IF ageInDaysLess(Val(whoisData).registrationDate, 30) THEN 30
             ELSE IF ageInDaysLess(Val(whoisData).registrationDate, 90) THEN 20
             ELSE 0)
        score ==
            (IF features.brandImpersonation THEN 40 ELSE before)
          + pts(features.credentialForms > 0, 30)
          + pts(features.obfuscatedJS, 35)
          + pts(~certificate.isValid, 25)
          + pts(~features.usesHTTPS, 20)
    IN  mathMin(100, score)

CSA_calculateAdvancedRiskScore(features, certificate, ipInfo, whoisData) ==
    LET score ==
            pts(~IsNull(features.tunnelService), 45)
          + pts(features.isDynamicDomain, 30)
          + pts(features.hasIPAddress, 35)
          + pts(features.suspiciousTLD, 25)
          + pts(~IsNull(ipInfo) /\ Val(ipInfo).country \in suspiciousCountries, 20)
          + (IF IsNull(whoisData) THEN 0
             ELSE IF ageInDaysLess(Val(whoisData).registrationDate, 30) THEN 30
             ELSE IF ageInDaysLess(Val(whoisData).registrationDate, 90) THEN 20
             ELSE 0)
          + pts(features.brandImpersonation, 40)
          + pts(features.credentialForms > 0, 30)
          + pts(features.obfuscatedJS, 35)
          + pts(~certificate.isValid, 25)
          + pts(~features.usesHTTPS, 20)
    IN  mathMin(100, score)

CSA_getVerdict(score) ==
    IF score >= 70 THEN "CONFIRMED_PHISHING"
    ELSE IF score >= 40 THEN "SUSPICIOUS"
    ELSE "LEGITIMATE"

\* getThreatLevel with the 60 / 30 split of the layered variant
CSA_getThreatLevel_6030(score) ==
    IF score >= 60 THEN "HIGH"
    ELSE IF score >= 30 THEN "MEDIUM"
    ELSE "LOW"

CSA_getThreatLevel(score) ==
    IF score >= 65 THEN "HIGH"
    ELSE IF score >= 35 THEN "MEDIUM"
    ELSE "LOW"

CSA_calculateConfidence(features, certificate, score) ==
    LET confidence ==
            80
          + pts(~IsNull(features.tunnelService) \/ features.brandImpersonation, 15)
          + pts(certificate.isValid /\ features.usesHTTPS, 5)
          + pts(score > 70 \/ score < 20, 10)
    IN  mathMin(99, confidence)

CSA_generateRedFlags(features, ipInfo, whoisData) ==
    (IF ~IsNull(features.tunnelService)
     THEN << <<"Tunnel service detected: ">> \o Val(features.tunnelService) >> ELSE <<>>)
    \o (IF features.brandImpersonation
        THEN << <<"Brand impersonation detected">> >> ELSE <<>>)
    \o (IF features.credentialForms > 0
        THEN << <<"Credential harvesting forms present">> >> ELSE <<>>)
    \o (IF features.obfuscatedJS
        THEN << <<"Obfuscated JavaScript detected">> >> ELSE <<>>)
    \o (IF ~IsNull(ipInfo) /\ Val(ipInfo).country \in suspiciousCountries
        THEN << <<"Hosted in high-risk country: ", Val(ipInfo).country>> >> ELSE <<>>)
    \o (IF ~IsNull(whoisData) /\ ageInDaysLess(Val(whoisData).registrationDate, 30)
        THEN << <<"Recently registered domain (< 30 days)">> >> ELSE <<>>)

\* generateRecommendations without its `if (recommendations.length === 0)`
CSA_generateRecommendations_noDefault(verdict, features, ipInfo) ==
    (IF verdict = "CONFIRMED_PHISHING"
     THEN << <<"IMMEDIATE ACTION: Block domain and warn users">>,
             <<"DO NOT enter any personal information">> >>
     ELSE IF verdict = "SUSPICIOUS"
     THEN << <<"PROCEED WITH EXTREME CAUTION">> >>
     ELSE <<>>)
    \o (IF ~IsNull(features.tunnelService)
        THEN << <<"Tunnel service risk: ">> \o Val(features.tunnelService) >>
        ELSE <<>>)
    \o (IF ~IsNull(ipInfo) /\ Val(ipInfo).country \in suspiciousCountries
        THEN << <<"Geographic risk: Hosted in ", Val(ipInfo).country>> >>
        ELSE <<>>)
    \o (IF features.credentialForms > 0
        THEN << <<"Credential harvesting forms detected">> >> ELSE <<>>)

CSA_generateRecommendations(verdict, features, ipInfo) ==
    LET recommendations ==
            (IF verdict = "CONFIRMED_PHISHING"
             THEN << <<"IMMEDIATE ACTION: Block domain and warn users">>,
                     <<"DO NOT enter any personal information">> >>
             ELSE IF verdict = "SUSPICIOUS"
             THEN << <<"PROCEED WITH EXTREME CAUTION">> >>
             ELSE <<>>)
            \o (IF ~IsNull(features.tunnelService)
                THEN << <<"Tunnel service risk: ">> \o Val(features.tunnelService) >>
                ELSE <<>>)
            \o (IF ~IsNull(ipInfo) /\ Val(ipInfo).country \in suspiciousCountries
                THEN << <<"Geographic risk: Hosted in ", Val(ipInfo).country>> >>
                ELSE <<>>)
            \o (IF features.credentialForms > 0
                THEN << <<"Credential harvesting forms detected">> >> ELSE <<>>)
    IN  IF Len(recommendations) = 0
        THEN << <<"Maintain standard security practices">> >>
        ELSE recommendations

CSA_generateThreatIntel(isPhishing, d) ==
    [reportedTimes |-> IF isPhishing THEN d.reportedPhishing ELSE d.reportedClean,
     threatCategories |-> IF isPhishing THEN getRandomThreatCategories(d) ELSE <<>>]

CSA_generateAnalysisDetails(features, ipInfo, whoisData) ==
    [infrastructureFindings |->
         << IF ~IsNull(ipInfo) THEN <<"Resolved IP: ", Val(ipInfo).ip>>
            ELSE <<"IP resolution failed">>,
            IF ~IsNull(ipInfo) THEN <<"Hosting: ", Val(ipInfo).org, " in ", Val(ipInfo).country>>
            ELSE <<"Location unknown">>,
            IF ~IsNull(whoisData) THEN <<"Registrar: ", Val(whoisData).registrar>>
            ELSE <<"Registrar unknown">>,
            IF ~IsNull(features.tunnelService)
            THEN <<"Tunnel service: ">> \o Val(features.tunnelService)
            ELSE <<"No tunnel service detected">> >>,
     visualFindings |->
         << IF features.brandImpersonation THEN <<"Brand impersonation detected">>
            ELSE <<"No brand impersonation">>,
            <<"Visual analysis completed">> >>,
     htmlFindings |->
         << IF features.credentialForms > 0
            THEN <<ToString(features.credentialForms), " credential form(s)">>
            ELSE <<"No credential forms">>,
            IF features.obfuscatedJS THEN <<"Obfuscated JavaScript">>
            ELSE <<"Clean JavaScript">> >>,
     behavioralFindings |->
         << <<"Behavioral simulation completed">>, <<"No suspicious redirects detected">> >>,
     sandboxFindings |->
         << <<"Sandbox execution completed">>, <<"No malicious behavior detected">> >>]

\* lines 283-310 of analyzeURL: the synchronous computation of the result
CSA_analysis(urlToAnalyze, urlObj, ipInfo, whoisData, d) ==
    LET features == CSA_analyzeFeatures(urlObj, ipInfo, whoisData, d)
        certificate == CSA_analyzeCertificate(urlObj, d)
        riskScore == CSA_calculateAdvancedRiskScore(features, certificate, ipInfo, whoisData)
        verdict == CSA_getVerdict(riskScore)
        threatLevel == CSA_getThreatLevel(riskScore)
        confidence == CSA_calculateConfidence(features, certificate, riskScore)
        keyRedFlags == CSA_generateRedFlags(features, ipInfo, whoisData)
        recommendations == CSA_generateRecommendations(verdict, features, ipInfo)
        threatIntel == CSA_generateThreatIntel(riskScore > 45, d)
        analysisDetails == CSA_generateAnalysisDetails(features, ipInfo, whoisData)
    IN  [url |-> urlToAnalyze,
         ipInfo |-> ipInfo,
         whoisData |-> whoisData,
         isPhishing |-> riskScore >= 45,
         riskScore |-> riskScore,
         confidence |-> confidence,
         verdict |-> verdict,
         threatLevel |-> threatLevel,
         keyRedFlags |-> keyRedFlags,
         features |-> features,
         certificate |-> certificate,
         recommendations |-> recommendations,
         threatIntel |-> threatIntel,
         analysisDetails |-> analysisDetails]

---------------------------------------------------------------------------
(* SpecFn: the scoring functions applied to every combination of signals *)

\* the signals calculateAdvancedRiskScore and calculateConfidence of
\* AdvancedPhishingDetector read
APD_signalInputs ==
    [tunnelService : {Null, Some(<<"ngrok", ".", "io">>)},
     isDynamicDomain : BOOLEAN,
     hasIPAddress : BOOLEAN,
     suspiciousTLD : BOOLEAN,
     credentialForms : {0, 1, 3},
     obfuscatedJS : BOOLEAN,
     externalPostTargets : {<<>>, << <<"malicious-collector.net">>, <<"data-harvester.com">> >>},
     usesHTTPS : BOOLEAN,
     mimicsKnownSites : BOOLEAN]

APD_certificateInputs == [isValid : BOOLEAN]

APD_brandInputs == [brandImpersonation : BOOLEAN, uiCloning : BOOLEAN]

\* the signals calculateAdvancedRiskScore and calculateConfidence of
\* CybersecurityAgent read
CSA_signalInputs ==
    [tunnelService : {Null, Some(<<"ngrok", ".", "io">>)},
     isDynamicDomain : BOOLEAN,
     hasIPAddress : BOOLEAN,
     suspiciousTLD : BOOLEAN,
     credentialForms : {0, 1},
     obfuscatedJS : BOOLEAN,
     brandImpersonation : BOOLEAN,
     usesHTTPS : BOOLEAN]

ipInfoInputs ==
    {Null} \cup {Some([ip |-> "93.184.216.34", country |-> c, org |-> "Unknown Organization"])
                 : c \in {"Russia", "Germany", "Unknown"}}

whoisInputs ==
    {Null} \cup {Some([domain |-> <<"example", ".", "com">>, registrar |-> "Unknown",
                       registrationDate |-> r, registrantOrganization |-> "Private"])
                 : r \in {dateDaysAgo(10), dateDaysAgo(60), dateDaysAgo(400),
                          unparsableDate("Unknown")}}

\* a call not yet made: its arguments, and blank return values
pendingCall(fn, f, c, b, ip, w, score) ==
    [fn |-> fn, features |-> f, certificate |-> c, brandAnalysis |-> b,
     ipInfo |-> ip, whoisData |-> w, score |-> score, returned |-> FALSE,
     riskScore |-> 0, verdict |-> "", threatLevel |-> "", confidence |-> 0]

classifyInputs(fn) ==
    {pendingCall(fn, [tunnelService |-> t, usesHTTPS |-> https, brandImpersonation |-> bi],
                 [isValid |-> valid], [brandImpersonation |-> bi, uiCloning |-> FALSE],
                 Null, Null, score)
     : score \in 0..100, t \in {Null, Some(<<"ngrok", ".", "io">>)},
       bi \in BOOLEAN, valid \in BOOLEAN, https \in BOOLEAN}

\* the calls of calculateAdvancedRiskScore, one per combination of signals
scoreInputs(fn) ==
    IF fn = "APD.score"
    THEN {pendingCall(fn, f, c, b, Null, Null, 0)
          : f \in APD_signalInputs, c \in APD_certificateInputs, b \in APD_brandInputs}
    ELSE {pendingCall(fn, f, c,
                      [brandImpersonation |-> f.brandImpersonation, uiCloning |-> FALSE],
                      ip, w, 0)
          : f \in CSA_signalInputs, c \in APD_certificateInputs,
            ip \in ipInfoInputs, w \in whoisInputs}

returnCall(score, verdict, threatLevel, confidence) ==
    call' = [call EXCEPT !.returned = TRUE, !.riskScore = score, !.verdict = verdict,
                         !.threatLevel = threatLevel, !.confidence = confidence]

\* calculateAdvancedRiskScore, then the verdict, threat level and confidence
\* of its score, as analyzeURL chains them
FnScoreAPD ==
    /\ call.fn = "APD.score" /\ ~call.returned
    /\ LET score == APD_calculateAdvancedRiskScore(call.features, call.certificate,
                                                   call.brandAnalysis)
       IN  returnCall(score, APD_getAdvancedVerdict(score),
                      APD_getAdvancedThreatLevel(score),
                      APD_calculateConfidence(call.features, call.certificate,
                                              call.brandAnalysis, score))
    /\ UNCHANGED uiVars

FnScoreCSA ==
    /\ call.fn = "CSA.score" /\ ~call.returned
    /\ LET score == CSA_calculateAdvancedRiskScore(call.features, call.certificate,
                                                   call.ipInfo, call.whoisData)
       IN  returnCall(score, CSA_getVerdict(score), CSA_getThreatLevel(score),
                      CSA_calculateConfidence(call.features, call.certificate, score))
    /\ UNCHANGED uiVars

\* getAdvancedVerdict / getAdvancedThreatLevel / calculateConfidence called
\* with any score of 0..100
FnClassifyAPD ==
    /\ call.fn = "APD.classify" /\ ~call.returned
    /\ returnCall(call.score, APD_getAdvancedVerdict(call.score),
                  APD_getAdvancedThreatLevel(call.score),
                  APD_calculateConfidence(call.features, call.certificate,
                                          call.brandAnalysis, call.score))
    /\ UNCHANGED uiVars

FnClassifyCSA ==
    /\ call.fn = "CSA.classify" /\ ~call.returned
    /\ returnCall(call.score, CSA_getVerdict(call.score), CSA_getThreatLevel(call.score),
                  CSA_calculateConfidence(call.features, call.certificate, call.score))
    /\ UNCHANGED uiVars

\* a fetch helper that has not been called
notCalled == [pc |-> "none", resolvedIP |-> "", value |-> Null]

\* no analysis is suspended at an await
idleRun ==
    [pc |-> "idle", i |-> 0, urlToAnalyze |-> <<>>, ip |-> notCalled, whois |-> notCalled]

\* ipAddress: '', hostingCountry: '', htmlContent: ''
noAux == [ipAddress |-> <<>>, hostingCountry |-> <<>>, htmlContent |-> <<>>]

uiIdle(m) ==
    /\ mounted = m
    /\ url = <<>>
    /\ aux = noAux
    /\ isValidUrl = TRUE
    /\ isAnalyzing = FALSE
    /\ result = Null
    /\ analysisProgress = 0
    /\ currentStage = 0
    /\ toast = ""
    /\ run = idleRun

FnInit ==
    /\ \/ \E fn \in {"APD.score", "CSA.score"} : call \in scoreInputs(fn)
       \/ \E fn \in {"APD.classify", "CSA.classify"} : call \in classifyInputs(fn)
    /\ uiIdle("none")

FnNext == FnScoreAPD \/ FnScoreCSA \/ FnClassifyAPD \/ FnClassifyCSA

SpecFn == FnInit /\ [][FnNext]_vars

---------------------------------------------------------------------------
(* Properties of the scoring functions, checked under SpecFn *)

scored == call.returned /\ call.fn \in {"APD.score", "CSA.score"}

\* C1: the riskScore calculateAdvancedRiskScore returns, in both components
\* and for every combination of signals, is an integer of 0..100.
C1_RiskScoreInRange == scored => call.riskScore \in 0..100

\* a call with every rule triggered, whose sum the cap cuts down to 100
C1_Witness ==
    /\ scored
    /\ call.riskScore = 100
    /\ ~IsNull(call.features.tunnelService) /\ call.features.isDynamicDomain
    /\ call.features.hasIPAddress /\ call.features.suspiciousTLD
    /\ call.features.obfuscatedJS /\ ~call.certificate.isValid

\* C2: verdict and threat level are the canonical functions of the score,
\* for every score of 0..100: 70 / 40 for the verdict, 65 / 35 for the level.
C2_CanonicalThresholds ==
    call.returned =>
        /\ call.riskScore \in 0..100
        /\ call.verdict = (IF call.riskScore >= 70 THEN "CONFIRMED_PHISHING"
                           ELSE IF call.riskScore >= 40 THEN "SUSPICIOUS"
                           ELSE "LEGITIMATE")
        /\ call.threatLevel = (IF call.riskScore >= 65 THEN "HIGH"
                               ELSE IF call.riskScore >= 35 THEN "MEDIUM"
                               ELSE "LOW")

\* a score between the two upper thresholds: SUSPICIOUS yet HIGH
C2_Witness ==
    /\ call.returned /\ call.fn = "CSA.classify"
    /\ call.riskScore = 67 /\ call.verdict = "SUSPICIOUS" /\ call.threatLevel = "HIGH"

\* the rules of calculateAdvancedRiskScore
APD_rules ==
    {"tunnel", "dynamic", "ip", "tld", "brand", "uiCloning", "credentialForms",
     "obfuscatedJS", "externalPost", "certificate", "http", "mimics"}

CSA_rules ==
    {"tunnel", "dynamic", "ip", "tld", "country", "age30", "age90", "brand",
     "credentialForms", "obfuscatedJS", "certificate", "http"}

ageRule(c) ==
    IF IsNull(c.whoisData) THEN "none"
    ELSE IF ageInDaysLess(Val(c.whoisData).registrationDate, 30) THEN "age30"
    ELSE IF ageInDaysLess(Val(c.whoisData).registrationDate, 90) THEN "age90"
    ELSE "none"

\* whether rule r is triggered by the arguments of call c
triggered(r, c) ==
    CASE r = "tunnel" -> ~IsNull(c.features.tunnelService)
      [] r = "dynamic" -> c.features.isDynamicDomain
      [] r = "ip" -> c.features.hasIPAddress
      [] r = "tld" -> c.features.suspiciousTLD
      [] r = "brand" -> c.brandAnalysis.brandImpersonation
      [] r = "uiCloning" -> c.brandAnalysis.uiCloning
      [] r = "credentialForms" -> c.features.credentialForms > 0
      [] r = "obfuscatedJS" -> c.features.obfuscatedJS
      [] r = "externalPost" -> Len(c.features.externalPostTargets) > 0
      [] r = "certificate" -> ~c.certificate.isValid
      [] r = "http" -> ~c.features.usesHTTPS
      [] r = "mimics" -> c.features.mimicsKnownSites
      [] r = "country" -> ~IsNull(c.ipInfo) /\ Val(c.ipInfo).country \in suspiciousCountries
      [] r \in {"age30", "age90"} -> ageRule(c) # "none"

someWhois(c, days) ==
    Some([domain |-> <<"example", ".", "com">>, registrar |-> "Unknown",
          registrationDate |-> dateDaysAgo(days), registrantOrganization |-> "Private"])

\* the arguments of call c with rule r triggered in addition, the other
\* signals as they are
withRule(r, c) ==
    CASE r = "tunnel" -> [c EXCEPT !.features.tunnelService = Some(<<"ngrok", ".", "io">>)]
      [] r = "dynamic" -> [c EXCEPT !.features.isDynamicDomain = TRUE]
      [] r = "ip" -> [c EXCEPT !.features.hasIPAddress = TRUE]
      [] r = "tld" -> [c EXCEPT !.features.suspiciousTLD = TRUE]
      [] r = "brand" -> [c EXCEPT !.brandAnalysis.brandImpersonation = TRUE,
                                  !.features = IF c.fn = "CSA.score"
                                               THEN [@ EXCEPT !.brandImpersonation = TRUE]
                                               ELSE @]
      [] r = "uiCloning" -> [c EXCEPT !.brandAnalysis.uiCloning = TRUE]
      [] r = "credentialForms" -> [c EXCEPT !.features.credentialForms = 1]
      [] r = "obfuscatedJS" -> [c EXCEPT !.features.obfuscatedJS = TRUE]
      [] r = "externalPost" ->
             [c EXCEPT !.features.externalPostTargets = << <<"data-harvester.com">> >>]
      [] r = "certificate" -> [c EXCEPT !.certificate.isValid = FALSE]
      [] r = "http" -> [c EXCEPT !.features.usesHTTPS = FALSE]
      [] r = "mimics" -> [c EXCEPT !.features.mimicsKnownSites = TRUE]
      [] r = "country" ->
             [c EXCEPT !.ipInfo = Some([ip |-> "93.184.216.34", country |-> "Russia",
                                        org |-> "Unknown Organization"])]
      [] r = "age30" -> [c EXCEPT !.whoisData = someWhois(c, 10)]
      [] r = "age90" -> [c EXCEPT !.whoisData = someWhois(c, 60)]

scoreOf(c) ==
    IF c.fn = "APD.score"
    THEN APD_calculateAdvancedRiskScore(c.features, c.certificate, c.brandAnalysis)
    ELSE CSA_calculateAdvancedRiskScore(c.features, c.certificate, c.ipInfo, c.whoisData)

rulesOf(c) == IF c.fn = "APD.score" THEN APD_rules ELSE CSA_rules

\* C3: a call that differs from the one made only in one more triggered rule
\* scores at least as much.
C3_Monotonic ==
    scored => \A r \in rulesOf(call) :
                  ~triggered(r, call) => scoreOf(withRule(r, call)) >= call.riskScore

\* brand impersonation added to a call that scored 75 below the cap
C3_Witness ==
    /\ scored /\ call.fn = "CSA.score"
    /\ call.riskScore = 75
    /\ ~triggered("brand", call)
    /\ scoreOf(withRule("brand", call)) = 100

\* C5: confidence is min(99, 80 + 15 [tunnel or brand impersonation]
\* + 5 [valid certificate over HTTPS] + 10 [score > 70 or score < 20]),
\* hence one of 80, 85, 90, 95, 99.
C5_Confidence ==
    call.returned =>
        /\ call.confidence =
               mathMin(99, 80
                   + (IF ~IsNull(call.features.tunnelService)
                         \/ call.brandAnalysis.brandImpersonation THEN 15 ELSE 0)
                   + (IF call.certificate.isValid /\ call.features.usesHTTPS THEN 5 ELSE 0)
                   + (IF call.riskScore > 70 \/ call.riskScore < 20 THEN 10 ELSE 0))
        /\ call.confidence \in {80, 85, 90, 95, 99}

\* all three bonuses at once: 110 cut down to 99
C5_Witness ==
    /\ call.returned /\ call.fn = "APD.score"
    /\ ~IsNull(call.features.tunnelService)
    /\ call.certificate.isValid /\ call.features.usesHTTPS
    /\ call.riskScore > 70
    /\ call.confidence = 99

---------------------------------------------------------------------------
(* The user's inputs *)

\* the texts the user types into the URL input
typedTexts ==
    { <<>>,
      <<" ">>,
      <<"example", ".", "com">>,
      <<"exa", " ", "mple">>,
      <<"http://", "192", ".", "168", ".", "1", ".", "1", "/", "login">>,
      <<"https://", "paypal", "-", "secure", "-", "verify", ".", "tk", "/", "account">>,
      <<"https://", "abc123", ".", "ngrok", ".", "io">> }

\* analysisProgress is kept in tenths of a percent: (i + 1) / 8 * 100 is 12.5
progressOf(i, n) == ((i + 1) * 1000) \div n

failedToast == "Analysis Failed"

verdictToast(verdict) ==
    IF verdict = "CONFIRMED_PHISHING" THEN "CRITICAL THREAT DETECTED"
    ELSE IF verdict = "SUSPICIOUS" THEN "SUSPICIOUS ACTIVITY"
    ELSE "URL VERIFIED SAFE"

---------------------------------------------------------------------------
(* URLAnalyzer.tsx and AdvancedPhishingDetector.tsx: the component *)

APD_numStages == 8

UA_validateURL(urlString) == ~IsNull(newURL(urlString))

\* handleInputChange without its setIsValidUrl(true)
UA_handleInputChange_keepInvalid(text) ==
    /\ mounted = "APD" /\ ~isAnalyzing
    /\ url' = text
    /\ UNCHANGED <<call, mounted, aux, isValidUrl, isAnalyzing, result, analysisProgress,
                   currentStage, toast, run>>

\* <Input onChange={handleInputChange} disabled={isAnalyzing}>
UA_handleInputChange(text) ==
    /\ mounted = "APD" /\ ~isAnalyzing
    /\ url' = text
    /\ isValidUrl' = TRUE
    /\ UNCHANGED <<call, mounted, aux, isAnalyzing, result, analysisProgress, currentStage,
                   toast, run>>

\* <button onClick={() => setUrl(example.url)} disabled={isAnalyzing}>
UA_exampleClick(example) ==
    /\ mounted = "APD" /\ ~isAnalyzing
    /\ url' = example
    /\ UNCHANGED <<call, mounted, aux, isValidUrl, isAnalyzing, result, analysisProgress,
                   currentStage, toast, run>>

\* lines 90-100 of analyzeURL: up to the first await of the stage loop
APD_analyzeURL(urlToAnalyze) ==
    /\ isAnalyzing' = TRUE
    /\ result' = Null
    /\ currentStage' = 1
    /\ analysisProgress' = progressOf(0, APD_numStages)
    /\ run' = [idleRun EXCEPT !.pc = "stages", !.urlToAnalyze = urlToAnalyze]
    /\ UNCHANGED toast

\* handleSubmit reachable while an analysis runs: the form without
\* disabled={isAnalyzing} on its button
UA_handleSubmit_notDisabled ==
    /\ mounted = "APD"
    /\ LET urlToCheck ==
               IF ~startsWith(trim(url), <<"http://">>) /\ ~startsWith(trim(url), <<"https://">>)
               THEN <<"https://">> \o trim(url)
               ELSE trim(url)
       IN  IF trim(url) = <<>> \/ ~UA_validateURL(urlToCheck)
           THEN /\ isValidUrl' = FALSE
                /\ UNCHANGED <<isAnalyzing, result, analysisProgress, currentStage, toast, run>>
           ELSE /\ isValidUrl' = TRUE
                /\ APD_analyzeURL(urlToCheck)
    /\ UNCHANGED <<call, mounted, aux, url>>

\* <form onSubmit={handleSubmit}>, its button disabled={isAnalyzing}
UA_handleSubmit ==
    /\ mounted = "APD" /\ ~isAnalyzing
    /\ LET urlToCheck ==
               IF ~startsWith(trim(url), <<"http://">>) /\ ~startsWith(trim(url), <<"https://">>)
               THEN <<"https://">> \o trim(url)
               ELSE trim(url)
       IN  IF trim(url) = <<>> \/ ~UA_validateURL(urlToCheck)
           THEN /\ isValidUrl' = FALSE
                /\ UNCHANGED <<isAnalyzing, result, analysisProgress, currentStage, toast, run>>
           ELSE /\ isValidUrl' = TRUE
                /\ APD_analyzeURL(urlToCheck)
    /\ UNCHANGED <<call, mounted, aux, url>>

\* the 800 ms timer of stage i fires and the loop goes round again
APD_nextStage ==
    /\ mounted = "APD" /\ run.pc = "stages" /\ run.i + 1 < APD_numStages
    /\ currentStage' = run.i + 2
    /\ analysisProgress' = progressOf(run.i + 1, APD_numStages)
    /\ run' = [run EXCEPT !.i = run.i + 1]
    /\ UNCHANGED <<call, mounted, aux, url, isValidUrl, isAnalyzing, result, toast>>

\* analyzeURL without its finally block
APD_complete_noFinally ==
    /\ mounted = "APD" /\ run.pc = "stages" /\ run.i + 1 = APD_numStages
    /\ LET urlObj == newURL(run.urlToAnalyze)
       IN  IF IsNull(urlObj)
           THEN /\ toast' = "Advanced Analysis Failed"
                /\ UNCHANGED result
           ELSE \E d \in Draws :
                    LET analysisResult == APD_analysis(run.urlToAnalyze, Val(urlObj), d)
                    IN  /\ result' = Some(analysisResult)
                        /\ toast' = verdictToast(analysisResult.advancedAnalysis.verdict)
    /\ run' = idleRun
    /\ UNCHANGED <<call, mounted, aux, url, isValidUrl, currentStage, isAnalyzing,
                   analysisProgress>>

\* the timer of the last stage fires: lines 103-243, try / catch / finally
APD_complete ==
    /\ mounted = "APD" /\ run.pc = "stages" /\ run.i + 1 = APD_numStages
    /\ LET urlObj == newURL(run.urlToAnalyze)
       IN  IF IsNull(urlObj)
           THEN /\ toast' = "Advanced Analysis Failed"
                /\ UNCHANGED result
           ELSE \E d \in Draws :
                    LET analysisResult == APD_analysis(run.urlToAnalyze, Val(urlObj), d)
                    IN  /\ result' = Some(analysisResult)
                        /\ toast' = verdictToast(analysisResult.advancedAnalysis.verdict)
    /\ isAnalyzing' = FALSE
    /\ analysisProgress' = 1000
    /\ run' = idleRun
    /\ UNCHANGED <<call, mounted, aux, url, isValidUrl, currentStage>>

\* the reset button, rendered with the result
APD_handleReset ==
    /\ mounted = "APD" /\ ~IsNull(result)
    /\ url' = <<>>
    /\ result' = Null
    /\ analysisProgress' = 0
    /\ currentStage' = 0
    /\ UNCHANGED <<call, mounted, aux, isValidUrl, isAnalyzing, toast, run>>

---------------------------------------------------------------------------
(* CybersecurityAgent.tsx: the external lookups *)

\* What a provider can answer to one fetch: the request fails ("neterr"),
\* the status is not OK ("status"), the body is not JSON ("badjson"), or the
\* body is JSON of the shape named by tag.
failures ==
    {[kind |-> k, tag |-> "", data |-> ""] : k \in {"neterr", "status", "badjson"}}

jsonBody(tag, data) == [kind |-> "json", tag |-> tag, data |-> data]

\* api.nslookup.io
dnsResponses ==
    failures \cup
    {jsonBody(t, "") : t \in {"null", "noAnswer", "emptyAnswer", "answerNotArray",
                              "cnameOnly", "aRecordNoData"}} \cup
    {jsonBody("aRecord", "93.184.216.34")}

\* ipapi.co
geoResponses ==
    failures \cup {jsonBody("null", ""), jsonBody("noCountry", "")} \cup
    {jsonBody("country", c) : c \in {"Russia", "Germany"}}

\* dns.google
fallbackResponses ==
    failures \cup
    {jsonBody(t, "") : t \in {"null", "noAnswer", "emptyAnswer", "nullElement"}} \cup
    {jsonBody("answer", "93.184.216.34")}

fulfilled(v) == [pc |-> "fulfilled", resolvedIP |-> "", value |-> v]

rejected == [pc |-> "rejected", resolvedIP |-> "", value |-> Null]

awaiting(pc, resolvedIP) == [pc |-> pc, resolvedIP |-> resolvedIP, value |-> Null]

\* fetchIPInfo called: it runs to its first await
fetchIPInfo == awaiting("dns", "")

\* the fallback of fetchIPInfo without its inner try / catch
fetchIPInfo_fallback_uncaught(r) ==
    IF r.kind = "json" /\ r.tag = "answer"
    THEN fulfilled(Some([ip |-> r.data, country |-> "Unknown (DNS only)",
                         org |-> "Unknown Organization"]))
    ELSE IF r.kind \in {"neterr", "badjson"} \/ r.tag \in {"null", "nullElement"}
    THEN rejected
    ELSE fulfilled(Null)

\* lines 154-177: the answer of dns.google inside the inner try / catch
fetchIPInfo_fallback(r) ==
    IF r.kind = "json" /\ r.tag = "answer"
    THEN fulfilled(Some([ip |-> r.data, country |-> "Unknown (DNS only)",
                         org |-> "Unknown Organization"]))
    ELSE fulfilled(Null)

\* fetchIPInfo resumed by the answer r to the fetch it awaits
fetchIPInfo_resume(st, r) ==
    IF st.pc = "dns"
    THEN IF r.kind = "json" /\ r.tag = "aRecord"
         THEN awaiting("geo", r.data)
         ELSE awaiting("fallback", "")
    ELSE IF st.pc = "geo"
    THEN IF r.kind \in {"neterr", "badjson"}
         THEN awaiting("fallback", "")
         ELSE fulfilled(Some([ip |-> st.resolvedIP,
                              country |-> IF r.kind = "json" /\ r.tag = "country"
                                          THEN r.data ELSE "Unknown",
                              org |-> "Unknown Organization"]))
    ELSE fetchIPInfo_fallback(r)

ipResponses(st) ==
    IF st.pc = "dns" THEN dnsResponses
    ELSE IF st.pc = "geo" THEN geoResponses
    ELSE IF st.pc = "fallback" THEN fallbackResponses
    ELSE {}

\* the dates a WHOIS record carries
createDates == {Null, Some(dateDaysAgo(10)), Some(dateDaysAgo(400))}

whoisFailures ==
    {[kind |-> k, tag |-> "", date |-> Null] : k \in {"neterr", "status", "badjson"}}

\* api.whoxy.com
whoxyResponses ==
    whoisFailures \cup
    {[kind |-> "json", tag |-> t, date |-> Null] : t \in {"null", "status0"}} \cup
    {[kind |-> "json", tag |-> "status1", date |-> c] : c \in createDates}

\* www.whoisxmlapi.com
altResponses ==
    whoisFailures \cup
    {[kind |-> "json", tag |-> t, date |-> Null] : t \in {"null", "noRecord"}} \cup
    {[kind |-> "json", tag |-> "record", date |-> c] : c \in createDates}

\* domain.split('.').pop() is one of the new TLDs
isNewTLD(domain) ==
    /\ Len(domain) >= 1
    /\ domain[Len(domain)] \in {"tk", "ml", "ga", "cf", "xyz", "top", "click"}
    /\ Len(domain) = 1 \/ domain[Len(domain) - 1] = "."

\* lines 231-248: the record built when the WHOIS services failed
whoisPlaceholder(domain) ==
    [domain |-> domain, registrar |-> "Unknown (API Unavailable)",
     registrationDate |-> unparsableDate("Unknown (API Unavailable)"),
     registrantOrganization |-> IF isNewTLD(domain) THEN "Possibly suspicious TLD"
                                ELSE "Unknown (API Unavailable)"]

whoisRecord(domain, date) ==
    [domain |-> domain, registrar |-> "Unknown",
     registrationDate |-> IF IsNull(date) THEN unparsableDate("Unknown") ELSE Val(date),
     registrantOrganization |-> "Private"]

fetchWhoisData == awaiting("whoxy", "")

\* fetchWhoisData resumed by the answer r to the fetch it awaits
fetchWhoisData_resume(st, r, domain) ==
    IF st.pc = "whoxy"
    THEN IF r.kind = "json" /\ r.tag = "status1"
         THEN fulfilled(Some(whoisRecord(domain, r.date)))
         ELSE IF r.kind = "status" \/ (r.kind = "json" /\ r.tag = "status0")
         THEN awaiting("alt", "")
         ELSE fulfilled(Some(whoisPlaceholder(domain)))
    ELSE IF r.kind = "json" /\ r.tag = "record"
         THEN fulfilled(Some(whoisRecord(domain, r.date)))
         ELSE fulfilled(Some(whoisPlaceholder(domain)))

whoisResponses(st) ==
    IF st.pc = "whoxy" THEN whoxyResponses
    ELSE IF st.pc = "alt" THEN altResponses
    ELSE {}

---------------------------------------------------------------------------
(* CybersecurityAgent.tsx: the component *)

CSA_numStages == 8

\* <Input type="url" onChange={(e) => setUrl(e.target.value)} disabled={isAnalyzing}>;
\* the value of a url input has its leading and trailing white space stripped
CSA_onChange(text) ==
    /\ mounted = "CSA" /\ ~isAnalyzing
    /\ url' = trim(text)
    /\ UNCHANGED <<call, mounted, aux, isValidUrl, isAnalyzing, result, analysisProgress,
                   currentStage, toast, run>>

\* lines 252-267 of analyzeURL: up to the first await of the stage loop, or,
\* when new URL throws, through catch and finally
CSA_analyzeURL(urlToAnalyze) ==
    /\ result' = Null
    /\ IF IsNull(newURL(urlToAnalyze))
       THEN /\ toast' = failedToast
            /\ isAnalyzing' = FALSE
            /\ analysisProgress' = 1000
            /\ UNCHANGED <<currentStage, run>>
       ELSE /\ isAnalyzing' = TRUE
            /\ currentStage' = 1
            /\ analysisProgress' = progressOf(0, CSA_numStages)
            /\ run' = [idleRun EXCEPT !.pc = "stages", !.urlToAnalyze = urlToAnalyze]
            /\ UNCHANGED toast

\* analyzeURL that leaves the previous result on screen
CSA_analyzeClick_keepResult ==
    /\ mounted = "CSA" /\ url # <<>> /\ ~isAnalyzing
    /\ IF IsNull(newURL(url))
       THEN /\ toast' = failedToast
            /\ isAnalyzing' = FALSE
            /\ analysisProgress' = 1000
            /\ UNCHANGED <<result, currentStage, run>>
       ELSE CSA_analyzeURL(url)
    /\ UNCHANGED <<call, mounted, aux, url, isValidUrl>>

\* <Button onClick={() => analyzeURL(url)} disabled={!url || isAnalyzing}>
CSA_analyzeClick ==
    /\ mounted = "CSA" /\ url # <<>> /\ ~isAnalyzing
    /\ CSA_analyzeURL(url)
    /\ UNCHANGED <<call, mounted, aux, url, isValidUrl>>

\* the 1500 ms timer of stage i fires and the loop goes round again
CSA_nextStage ==
    /\ mounted = "CSA" /\ run.pc = "stages" /\ run.i + 1 < CSA_numStages
    /\ currentStage' = run.i + 2
    /\ analysisProgress' = progressOf(run.i + 1, CSA_numStages)
    /\ run' = [run EXCEPT !.i = run.i + 1]
    /\ UNCHANGED <<call, mounted, aux, url, isValidUrl, isAnalyzing, result, toast>>

\* the timer of the last stage fires: Promise.all calls both helpers, which
\* run to their first fetch
CSA_startLookups ==
    /\ mounted = "CSA" /\ run.pc = "stages" /\ run.i + 1 = CSA_numStages
    /\ run' = [run EXCEPT !.pc = "lookups", !.ip = fetchIPInfo, !.whois = fetchWhoisData]
    /\ UNCHANGED <<call, mounted, aux, url, isValidUrl, isAnalyzing, result, analysisProgress,
                   currentStage, toast>>

\* a provider answers the fetch that fetchIPInfo awaits
CSA_ipResponse ==
    /\ mounted = "CSA" /\ run.pc = "lookups"
    /\ \E r \in ipResponses(run.ip) :
           run' = [run EXCEPT !.ip = fetchIPInfo_resume(run.ip, r)]
    /\ UNCHANGED <<call, mounted, aux, url, isValidUrl, isAnalyzing, result, analysisProgress,
                   currentStage, toast>>

\* a provider answers the fetch that fetchWhoisData awaits
CSA_whoisResponse ==
    /\ mounted = "CSA" /\ run.pc = "lookups"
    /\ \E r \in whoisResponses(run.whois) :
           run' = [run EXCEPT !.whois = fetchWhoisData_resume(run.whois, r,
                                            Val(newURL(run.urlToAnalyze)).hostname)]
    /\ UNCHANGED <<call, mounted, aux, url, isValidUrl, isAnalyzing, result, analysisProgress,
                   currentStage, toast>>

\* the rest of try run as soon as the IP lookup is fulfilled, with the WHOIS
\* value as it is at that moment
CSA_complete_ipOnly ==
    /\ mounted = "CSA" /\ run.pc = "lookups"
    /\ \/ "rejected" \in {run.ip.pc, run.whois.pc}
       \/ run.ip.pc = "fulfilled"
    /\ IF "rejected" \in {run.ip.pc, run.whois.pc}
       THEN /\ toast' = failedToast
            /\ UNCHANGED result
       ELSE \E d \in Draws :
                LET analysisResult ==
                        CSA_analysis(run.urlToAnalyze, Val(newURL(run.urlToAnalyze)),
                                     run.ip.value, run.whois.value, d)
                IN  /\ result' = Some(analysisResult)
                    /\ toast' = verdictToast(analysisResult.verdict)
    /\ isAnalyzing' = FALSE
    /\ analysisProgress' = 1000
    /\ run' = idleRun
    /\ UNCHANGED <<call, mounted, aux, url, isValidUrl, currentStage>>

\* Promise.all settles: lines 283-334, the rest of try, or catch, then finally
CSA_complete ==
    /\ mounted = "CSA" /\ run.pc = "lookups"
    /\ \/ "rejected" \in {run.ip.pc, run.whois.pc}
       \/ run.ip.pc = "fulfilled" /\ run.whois.pc = "fulfilled"
    /\ IF "rejected" \in {run.ip.pc, run.whois.pc}
       THEN /\ toast' = failedToast
            /\ UNCHANGED result
       ELSE \E d \in Draws :
                LET analysisResult ==
                        CSA_analysis(run.urlToAnalyze, Val(newURL(run.urlToAnalyze)),
                                     run.ip.value, run.whois.value, d)
                IN  /\ result' = Some(analysisResult)
                    /\ toast' = verdictToast(analysisResult.verdict)
    /\ isAnalyzing' = FALSE
    /\ analysisProgress' = 1000
    /\ run' = idleRun
    /\ UNCHANGED <<call, mounted, aux, url, isValidUrl, currentStage>>

\* the reset button, rendered with the result
CSA_handleReset ==
    /\ mounted = "CSA" /\ ~IsNull(result)
    /\ url' = <<>>
    /\ result' = Null
    /\ analysisProgress' = 0
    /\ currentStage' = 0
    /\ UNCHANGED <<call, mounted, aux, isValidUrl, isAnalyzing, toast, run>>

---------------------------------------------------------------------------
(* part_002, the layered agent: Math.random() call sites *)

\* every call site at its most likely outcome
LAY_baseDraws ==
    [ipReputation |-> FALSE, invalidCertificate |-> FALSE, visualSimilarity |-> FALSE,
     blacklisted |-> FALSE, malwareActivity |-> FALSE, daysSinceCreation |-> 200]

\* the records in which at most k call sites have another outcome
RECURSIVE LAY_drawsUpTo(_)
LAY_drawsUpTo(k) ==
    LET other(site) == IF site = "daysSinceCreation" THEN {10} ELSE {TRUE}
        D == LAY_drawsUpTo(k - 1)
    IN  IF k = 0 THEN {LAY_baseDraws}
        ELSE D \cup UNION {UNION {{[d EXCEPT ![site] = v] : v \in other(site)}
                                  : site \in DOMAIN LAY_baseDraws} : d \in D}

LAY_Draws == LAY_drawsUpTo(MaxFired)

---------------------------------------------------------------------------
(* part_002: the six layers.  A weight is in hundredths: 25 is 0.25. *)

LayerResult(score, status, findings, weight) ==
    [score |-> score, status |-> status, findings |-> findings, weight |-> weight]

\* status: score >= fail ? 'FAIL' : score >= warn ? 'WARN' : 'PASS'
statusOf(score, fail, warn) ==
    IF score >= fail THEN "FAIL" ELSE IF score >= warn THEN "WARN" ELSE "PASS"

\* /@|\/\//.test(href) && href.indexOf('@') > 8: the first '@' lies after
\* the scheme and at least one more atom
atAfterScheme(href) ==
    LET ats == {i \in 1..Len(href) : href[i] = "@"}
    IN  ats # {} /\ Min(ats) > 2

LAY_analyzeUrlDomain(urlObj) ==
    LET domain == toLowerCase(urlObj.hostname)
        suspiciousTLDs ==
            {"tk", "ml", "ga", "cf", "bit", "cc", "pw", "top", "click", "download"}
        brandNames == <<"google", "facebook", "amazon", "microsoft", "apple", "paypal">>
        typosquatted(brand) ==
            includes(domain, <<brand>>) /\ ~endsWith(domain, <<brand, ".", "com">>)
        brands == SelectSeq(brandNames, typosquatted)
        score == pts(isDottedQuad(domain), 40)
                 + pts(matchesTLD(domain, suspiciousTLDs), 25)
                 + 30 * Len(brands)
                 + pts(splitDotLength(domain) > 3, 15)
                 + pts(atAfterScheme(urlObj.href), 35)
        findings ==
            (IF isDottedQuad(domain)
             THEN << <<"Uses IP address instead of domain name (CRITICAL)">> >> ELSE <<>>)
            \o (IF matchesTLD(domain, suspiciousTLDs)
                THEN << <<"Suspicious top-level domain detected">> >> ELSE <<>>)
            \o [i \in 1..Len(brands) |-> <<"Potential ", brands[i], " typosquatting detected">>]
            \o (IF splitDotLength(domain) > 3
                THEN << <<"Multiple subdomains detected">> >> ELSE <<>>)
            \o (IF atAfterScheme(urlObj.href)
                THEN << <<"Suspicious URL redirects detected">> >> ELSE <<>>)
    IN  LayerResult(mathMin(100, score), statusOf(score, 40, 20), findings, 25)

LAY_analyzeIpGeoLocation(ip, country, d) ==
    LET countries == { <<"russia">>, <<"china">>, <<"north korea">>, <<"iran">> }
        risky == country # <<>>
                 /\ \E c \in countries : includes(toLowerCase(country), c)
        listed == ip # <<>> /\ d.ipReputation
        score == pts(risky, 20) + pts(listed, 25)
        findings ==
            (IF risky THEN << <<"Hosted in high-risk country: ">> \o country >> ELSE <<>>)
            \o (IF listed THEN << <<"IP address found in threat databases">> >> ELSE <<>>)
    IN  LayerResult(mathMin(100, score), statusOf(score, 30, 15),
                    IF Len(findings) > 0 THEN findings
                    ELSE << <<"No geo-location red flags detected">> >>,
                    15)

LAY_analyzeSslSecurity(urlObj, d) ==
    LET score == pts(urlObj.protocol # "https:", 30) + pts(d.invalidCertificate, 20)
        findings ==
            (IF urlObj.protocol # "https:"
             THEN << <<"No HTTPS encryption - MAJOR RISK">> >>
             ELSE << <<"HTTPS encryption detected">> >>)
            \o (IF d.invalidCertificate
                THEN << <<"Self-signed or invalid SSL certificate">> >> ELSE <<>>)
    IN  LayerResult(mathMin(100, score), statusOf(score, 25, 10), findings, 20)

\* the atoms of an HTML text that the three regular expressions look for
passwordInput == "<input type='password'>"

hiddenInput == "<input type='hidden'>"

hasAtom(text, atoms) == \E i \in 1..Len(text) : text[i] \in atoms

LAY_analyzeHtmlContent(html) ==
    IF html = <<>>
    THEN LayerResult(0, "PASS", << <<"No HTML content provided for analysis">> >>, 15)
    ELSE LET obfuscators == {"eval(", "document.write(", "base64"}
             score == pts(hasAtom(html, {passwordInput}), 20)
                      + pts(hasAtom(html, obfuscators), 25)
                      + pts(hasAtom(html, {hiddenInput}), 10)
             findings ==
                 (IF hasAtom(html, {passwordInput})
                  THEN << <<"Password input fields detected">> >> ELSE <<>>)
                 \o (IF hasAtom(html, obfuscators)
                     THEN << <<"Potentially obfuscated JavaScript detected">> >> ELSE <<>>)
                 \o (IF hasAtom(html, {hiddenInput})
                     THEN << <<"Hidden form fields present">> >> ELSE <<>>)
         IN  LayerResult(mathMin(100, score), statusOf(score, 30, 15),
                         IF Len(findings) > 0 THEN findings
                         ELSE << <<"No malicious HTML patterns detected">> >>,
                         15)

\* the layer with the score returned as summed, without Math.min(100, score)
LAY_analyzeVisualBrand_unclamped(domain, d) ==
    LET domainLower == toLowerCase(domain)
        brandKeywords == <<"secure", "verify", "account", "update", "suspended">>
        present(keyword) == includes(domainLower, <<keyword>>)
        keywords == SelectSeq(brandKeywords, present)
        score == 15 * Len(keywords) + pts(d.visualSimilarity, 30)
    IN  LayerResult(score, statusOf(score, 35, 20),
                    [i \in 1..Len(keywords) |->
                        <<"Brand impersonation keyword: ", keywords[i]>>],
                    15)

LAY_analyzeVisualBrand(domain, d) ==
    LET domainLower == toLowerCase(domain)
        brandKeywords == <<"secure", "verify", "account", "update", "suspended">>
        present(keyword) == includes(domainLower, <<keyword>>)
        keywords == SelectSeq(brandKeywords, present)
        score == 15 * Len(keywords) + pts(d.visualSimilarity, 30)
        findings ==
            [i \in 1..Len(keywords) |-> <<"Brand impersonation keyword: ", keywords[i]>>]
            \o (IF d.visualSimilarity
                THEN << <<"High visual similarity to legitimate brand detected">> >>
                ELSE <<>>)
    IN  LayerResult(mathMin(100, score), statusOf(score, 35, 20),
                    IF Len(findings) > 0 THEN findings
                    ELSE << <<"No brand impersonation detected">> >>,
                    15)

LAY_analyzeThreatIntelligence(domain, d) ==
    LET score == pts(d.blacklisted, 40) + pts(d.malwareActivity, 25)
                 + pts(d.daysSinceCreation < 30, 20)
        findings ==
            (IF d.blacklisted
             THEN << <<"Domain found in phishing blacklists">> >> ELSE <<>>)
            \o (IF d.malwareActivity
                THEN << <<"Recent malware activity associated with domain">> >> ELSE <<>>)
            \o (IF d.daysSinceCreation < 30
                THEN << <<"Domain recently created (days ago): ", ToString(d.daysSinceCreation)>> >>
                ELSE <<>>)
    IN  LayerResult(mathMin(100, score), statusOf(score, 40, 20),
                    IF Len(findings) > 0 THEN findings
                    ELSE << <<"Clean threat intelligence reputation">> >>,
                    30)

---------------------------------------------------------------------------
(* part_002: aggregation and explanation.  A weighted score is in hundredths
   of a point, the exact value of the sum of score * weight. *)

layerNames ==
    <<"urlDomain", "ipGeoLocation", "sslSecurity", "htmlAnalysis", "visualBrand",
      "threatIntel">>

\* Object.values(layers).reduce((total, layer) => total + layer.score * layer.weight, 0)
RECURSIVE LAY_calculateWeightedScore(_)
LAY_calculateWeightedScore(layers) ==
    IF DOMAIN layers = {} THEN 0
    ELSE LET name == CHOOSE n \in DOMAIN layers : TRUE
             rest == [n \in DOMAIN layers \ {name} |-> layers[n]]
         IN  layers[name].score * layers[name].weight + LAY_calculateWeightedScore(rest)

LAY_getThreatLevel(score) ==
    IF score >= 6000 THEN "HIGH" ELSE IF score >= 3000 THEN "MEDIUM" ELSE "LOW"

LAY_getVerdict(score) ==
    IF score >= 7000 THEN "PHISHING" ELSE IF score >= 4000 THEN "SUSPICIOUS" ELSE "LEGITIMATE"

RECURSIVE explain(_, _)
explain(layers, n) ==
    IF n = 0 THEN <<>>
    ELSE explain(layers, n - 1)
         \o (IF layers[layerNames[n]].status = "FAIL"
             THEN << <<layerNames[n], ": Critical security issues detected">> >>
             ELSE IF layers[layerNames[n]].status = "WARN"
             THEN << <<layerNames[n], ": Moderate concerns identified">> >>
             ELSE <<>>)

LAY_generateExplanation(layers) == explain(layers, Len(layerNames))

LAY_generateRecommendations(verdict, layers) ==
    IF verdict = "PHISHING"
    THEN << <<"IMMEDIATE ACTION: Do NOT enter any credentials or personal information">>,
            <<"Close the website immediately and clear browser cache">>,
            <<"Report this site to your IT security team">> >>
    ELSE IF verdict = "SUSPICIOUS"
    THEN << <<"Exercise extreme caution on this website">>,
            <<"Verify the website's authenticity through official channels">>,
            <<"Avoid entering sensitive information">> >>
    ELSE << <<"Website appears legitimate based on current analysis">>,
            <<"Continue with normal security precautions">> >>

LAY_calculateConfidence(layers) ==
    LET analyzedLayers == {n \in 1..Len(layerNames) : Len(layers[layerNames[n]].findings) > 0}
    IN  mathMin(95, 70 + Cardinality(analyzedLayers) * 5)

\* lines 85-131 of performLayeredAnalysis: from the layers to analysisResult
LAY_analysis(urlObj, input, d) ==
    LET layers ==
            [urlDomain |-> LAY_analyzeUrlDomain(urlObj),
             ipGeoLocation |-> LAY_analyzeIpGeoLocation(input.ipAddress, input.hostingCountry, d),
             sslSecurity |-> LAY_analyzeSslSecurity(urlObj, d),
             htmlAnalysis |-> LAY_analyzeHtmlContent(input.htmlContent),
             visualBrand |-> LAY_analyzeVisualBrand(urlObj.hostname, d),
             threatIntel |-> LAY_analyzeThreatIntelligence(urlObj.hostname, d)]
        weightedScore == LAY_calculateWeightedScore(layers)
        threatLevel == LAY_getThreatLevel(weightedScore)
        verdict == LAY_getVerdict(weightedScore)
    IN  [threatLevel |-> threatLevel,
         phishingScore |-> (weightedScore + 50) \div 100,   \* Math.round
         verdict |-> verdict,
         layers |-> layers,
         explanation |-> LAY_generateExplanation(layers),
         recommendations |-> LAY_generateRecommendations(verdict, layers),
         confidence |-> LAY_calculateConfidence(layers)]

---------------------------------------------------------------------------
(* part_002: the component *)

LAY_numStages == 8

\* the four inputs: onChange={(e) => setInput({ ...input, <field>: e.target.value })}
LAY_urlChange(text) ==
    /\ mounted = "LAY" /\ ~isAnalyzing
    /\ url' = text
    /\ UNCHANGED <<call, mounted, aux, isValidUrl, isAnalyzing, result, analysisProgress,
                   currentStage, toast, run>>

LAY_ipAddressChange(text) ==
    /\ mounted = "LAY" /\ ~isAnalyzing
    /\ aux' = [aux EXCEPT !.ipAddress = text]
    /\ UNCHANGED <<call, mounted, url, isValidUrl, isAnalyzing, result, analysisProgress,
                   currentStage, toast, run>>

LAY_hostingCountryChange(text) ==
    /\ mounted = "LAY" /\ ~isAnalyzing
    /\ aux' = [aux EXCEPT !.hostingCountry = text]
    /\ UNCHANGED <<call, mounted, url, isValidUrl, isAnalyzing, result, analysisProgress,
                   currentStage, toast, run>>

LAY_htmlContentChange(text) ==
    /\ mounted = "LAY" /\ ~isAnalyzing
    /\ aux' = [aux EXCEPT !.htmlContent = text]
    /\ UNCHANGED <<call, mounted, url, isValidUrl, isAnalyzing, result, analysisProgress,
                   currentStage, toast, run>>

\* <Button onClick={performLayeredAnalysis} disabled={isAnalyzing || !input.url.trim()}>:
\* lines 67-90, up to the first await of the loop, or, when the URL is empty
\* or new URL throws, through catch and finally
LAY_performLayeredAnalysis ==
    /\ mounted = "LAY" /\ ~isAnalyzing /\ trim(url) # <<>>
    /\ result' = Null
    /\ LET urlToAnalyze ==
               IF ~startsWith(trim(url), <<"http://">>) /\ ~startsWith(trim(url), <<"https://">>)
               THEN <<"https://">> \o trim(url)
               ELSE trim(url)
       IN  IF trim(url) = <<>> \/ IsNull(newURL(urlToAnalyze))
           THEN /\ toast' = failedToast
                /\ isAnalyzing' = FALSE
                /\ analysisProgress' = 0
                /\ UNCHANGED <<currentStage, run>>
           ELSE /\ isAnalyzing' = TRUE
                /\ currentStage' = 1
                /\ analysisProgress' = progressOf(0, LAY_numStages)
                /\ run' = [idleRun EXCEPT !.pc = "stages", !.urlToAnalyze = urlToAnalyze]
                /\ UNCHANGED toast
    /\ UNCHANGED <<call, mounted, url, aux, isValidUrl>>

\* the 800 ms timer of layer i fires and the loop goes round again
LAY_nextStage ==
    /\ mounted = "LAY" /\ run.pc = "stages" /\ run.i + 1 < LAY_numStages
    /\ currentStage' = run.i + 2
    /\ analysisProgress' = progressOf(run.i + 1, LAY_numStages)
    /\ run' = [run EXCEPT !.i = run.i + 1]
    /\ UNCHANGED <<call, mounted, url, aux, isValidUrl, isAnalyzing, result, toast>>

\* the timer of the last layer fires: lines 92-151
LAY_complete ==
    /\ mounted = "LAY" /\ run.pc = "stages" /\ run.i + 1 = LAY_numStages
    /\ \E d \in LAY_Draws :
           LET analysisResult == LAY_analysis(Val(newURL(run.urlToAnalyze)), aux, d)
           IN  /\ result' = Some(analysisResult)
               /\ toast' = "Analysis Complete - " \o analysisResult.verdict
    /\ isAnalyzing' = FALSE
    /\ run' = idleRun
    /\ UNCHANGED <<call, mounted, url, aux, isValidUrl, analysisProgress, currentStage>>

\* the reset button, rendered with the result
LAY_handleReset ==
    /\ mounted = "LAY" /\ ~IsNull(result)
    /\ url' = <<>>
    /\ aux' = noAux
    /\ result' = Null
    /\ analysisProgress' = 0
    /\ currentStage' = 0
    /\ UNCHANGED <<call, mounted, isValidUrl, isAnalyzing, toast, run>>

---------------------------------------------------------------------------
(* Spec: one of the three components mounted, driven by the user, the timers
   and the providers.  FairSpec: timers fire and ready continuations run;
   nothing obliges a provider to answer. *)


Init ==
    /\ call = pendingCall("none", <<>>, <<>>, <<>>, Null, Null, 0)
    /\ \E m \in {"APD", "CSA", "LAY"} : uiIdle(m)

Next ==
    \/ \E text \in typedTexts : UA_handleInputChange(text)
    \/ \E example \in { <<"https://", "google", ".", "com">>,
                         <<"https://", "github", ".", "com">>,
                         <<"http://", "g00gle", "-", "verify", "-", "account", ".", "tk">>,
                         <<"https://", "paypaI", "-", "secure", "-", "login", ".", "click">> } :
           UA_exampleClick(example)
    \/ UA_handleSubmit
    \/ APD_nextStage
    \/ APD_complete
    \/ APD_handleReset
    \/ \E text \in typedTexts : CSA_onChange(text)
    \/ CSA_analyzeClick
    \/ CSA_nextStage
    \/ CSA_startLookups
    \/ CSA_ipResponse
    \/ CSA_whoisResponse
    \/ CSA_complete
    \/ CSA_handleReset
    \/ \E text \in typedTexts : LAY_urlChange(text)
    \/ \E text \in { <<>>, <<"203", ".", "0", ".", "113", ".", "7">> } :
           LAY_ipAddressChange(text)
    \/ \E text \in { <<>>, <<"Russia">> } : LAY_hostingCountryChange(text)
    \/ \E text \in { <<>>, <<"<form>", passwordInput, hiddenInput, "</form>">> } :
           LAY_htmlContentChange(text)
    \/ LAY_performLayeredAnalysis
    \/ LAY_nextStage
    \/ LAY_complete
    \/ LAY_handleReset

Spec == Init /\ [][Next]_vars

\* what APD_complete does to run: every APD_complete step is such a step,
\* and one is possible exactly when APD_complete is
APD_runEnds ==
    /\ mounted = "APD" /\ run.pc = "stages" /\ run.i + 1 = APD_numStages
    /\ run' = idleRun

\* what CSA_complete does to run
CSA_runEnds ==
    /\ mounted = "CSA" /\ run.pc = "lookups"
    /\ \/ "rejected" \in {run.ip.pc, run.whois.pc}
       \/ run.ip.pc = "fulfilled" /\ run.whois.pc = "fulfilled"
    /\ run' = idleRun

\* what LAY_complete does to run
LAY_runEnds ==
    /\ mounted = "LAY" /\ run.pc = "stages" /\ run.i + 1 = LAY_numStages
    /\ run' = idleRun

\* a timer that was set fires, and a continuation that is ready runs
timers ==
    /\ WF_vars(APD_nextStage)
    /\ WF_run(APD_runEnds)
    /\ WF_vars(CSA_nextStage)
    /\ WF_vars(CSA_startLookups)
    /\ WF_run(CSA_runEnds)
    /\ WF_vars(LAY_nextStage)
    /\ WF_run(LAY_runEnds)

FairSpec == Spec /\ timers

---------------------------------------------------------------------------
(* Properties of the components, checked under Spec and FairSpec *)

\* C4: analysis is deterministic: every run of analyzeURL on the URL of the
\* result on screen (AdvancedPhishingDetector, which consults no provider)
\* produces that same result, whatever Math.random() returns.
C4_Deterministic ==
    (mounted = "APD" /\ ~IsNull(result)) =>
        \A d \in Draws :
            APD_analysis(Val(result).url, Val(newURL(Val(result).url)), d) = Val(result)

\* the input with https:// put in front when it names no scheme
withScheme(text) ==
    IF ~startsWith(trim(text), <<"http://">>) /\ ~startsWith(trim(text), <<"https://">>)
    THEN <<"https://">> \o trim(text)
    ELSE trim(text)

\* C6: an analysis of a URL that new URL rejects (analyzeURL of
\* CybersecurityAgent, performLayeredAnalysis of the layered agent) leaves no
\* result, shows the failure toast and ends with isAnalyzing false; and a
\* result is only ever stored by a run whose URL parsed.
C6_NoPartialResult ==
    [][/\ (CSA_analyzeClick /\ IsNull(newURL(url))) =>
              /\ IsNull(result')
              /\ toast' = failedToast
              /\ ~isAnalyzing'
              /\ run' = idleRun
       /\ (LAY_performLayeredAnalysis /\ IsNull(newURL(withScheme(url)))) =>
              /\ IsNull(result')
              /\ toast' = failedToast
              /\ ~isAnalyzing'
              /\ run' = idleRun
       /\ (mounted = "CSA" /\ ~IsNull(result') /\ result' # result) =>
              /\ run.pc = "lookups"
              /\ ~IsNull(newURL(run.urlToAnalyze))
              /\ Val(result').url = run.urlToAnalyze
       /\ (mounted = "LAY" /\ ~IsNull(result') /\ result' # result) =>
              /\ run.pc = "stages"
              /\ ~IsNull(newURL(run.urlToAnalyze))]_vars

\* Analyze clicked on "example.com", which new URL rejects: failed, no result
C6_Witness ==
    /\ mounted = "CSA"
    /\ url = <<"example", ".", "com">>
    /\ IsNull(newURL(url))
    /\ toast = failedToast
    /\ IsNull(result)
    /\ ~isAnalyzing
    /\ analysisProgress = 1000

APD_resultFields ==
    {"url", "isPhishing", "riskScore", "confidence", "features", "certificate",
     "brandAnalysis", "recommendations", "threatIntel", "advancedAnalysis"}

\* Done: the result holds a complete AnalysisResult
APD_done ==
    /\ ~isAnalyzing
    /\ ~IsNull(result)
    /\ DOMAIN Val(result) = APD_resultFields
    /\ toast = verdictToast(Val(result).advancedAnalysis.verdict)

\* Failed: no result, and the failure toast
APD_failed ==
    /\ ~isAnalyzing
    /\ IsNull(result)
    /\ toast = "Advanced Analysis Failed"

\* C7: a run of AdvancedPhishingDetector's analyzeURL starts at stage 1,
\* goes through the 8 stages one by one, ends only after the last one, in
\* Done or in Failed, and does end.
C7_StagesThenTerminal ==
    /\ [][mounted = "APD" =>
              /\ (~isAnalyzing /\ isAnalyzing') => currentStage' = 1
              /\ (isAnalyzing /\ isAnalyzing') => currentStage' = currentStage + 1
              /\ (isAnalyzing /\ ~isAnalyzing') =>
                     /\ currentStage = APD_numStages
                     /\ currentStage' = currentStage
                     /\ (APD_done' /\ ~APD_failed') \/ (APD_failed' /\ ~APD_done')]_vars
    /\ (mounted = "APD" /\ isAnalyzing) ~> (~isAnalyzing /\ (APD_done \/ APD_failed))

\* a run that went through all the stages and ended in Done
C7_Witness ==
    /\ mounted = "APD"
    /\ APD_done
    /\ currentStage = APD_numStages
    /\ analysisProgress = 1000

\* C8: at both entry points (the form of URLAnalyzer, the Analyze button of
\* CybersecurityAgent) an input that parses once https:// is put in front of
\* it starts an analysis of the prefixed URL, and no failure is shown.
C8_SchemePrefixed ==
    [][((UA_handleSubmit \/ CSA_analyzeClick) /\ ~IsNull(newURL(withScheme(url)))) =>
           /\ isAnalyzing'
           /\ run'.urlToAnalyze = withScheme(url)
           /\ toast' = toast]_vars

\* C9: neither lookup helper ever settles rejected, fetchWhoisData always
\* resolves to a record, and when Promise.all settles, whatever the
\* providers answered, analyzeURL stores a result and shows no failure.
C9_LookupsNeverFail ==
    /\ [](mounted = "CSA" =>
              /\ run.ip.pc # "rejected"
              /\ run.whois.pc # "rejected"
              /\ run.whois.pc = "fulfilled" => ~IsNull(run.whois.value))
    /\ [][(mounted = "CSA" /\ run.pc = "lookups" /\ run'.pc = "idle") =>
              /\ ~IsNull(result')
              /\ toast' # failedToast
              /\ Val(result').ipInfo = run.ip.value
              /\ Val(result').whoisData = run.whois.value]_vars

\* a result stored after every lookup failed: no IP, the placeholder record
C9_Witness ==
    /\ mounted = "CSA"
    /\ ~IsNull(result)
    /\ IsNull(Val(result).ipInfo)
    /\ Val(Val(result).whoisData).registrar = "Unknown (API Unavailable)"
    /\ toast # failedToast

\* C10: an analysis of CybersecurityAgent ends even when no provider ever
\* answers: isAnalyzing, once true, becomes false again.
C10_Terminates == (mounted = "CSA" /\ isAnalyzing) ~> ~isAnalyzing

---------------------------------------------------------------------------
(* Properties of the findings, red flags and recommendations *)

\* C11: in every stored result the findings of each layer evaluator are
\* non-empty, and a "clean" finding is the only finding of its layer.
C11_FindingsNonEmpty ==
    LET clean ==
            { <<"No infrastructure red flags detected">>,
              <<"No visual impersonation detected">>,
              <<"No malicious HTML patterns detected">>,
              <<"No suspicious behavioral patterns detected">>,
              <<"No malicious sandbox behavior detected">>,
              <<"No geo-location red flags detected">>,
              <<"HTTPS encryption detected">>,
              <<"No HTML content provided for analysis">>,
              <<"No brand impersonation detected">>,
              <<"Clean threat intelligence reputation">> }
        wellFormed(findings) ==
            /\ Len(findings) > 0
            /\ (\E i \in 1..Len(findings) : findings[i] \in clean) => Len(findings) = 1
    IN  /\ (mounted = "APD" /\ ~IsNull(result)) =>
               /\ wellFormed(Val(result).advancedAnalysis.infrastructureFindings)
               /\ wellFormed(Val(result).advancedAnalysis.visualFindings)
               /\ wellFormed(Val(result).advancedAnalysis.htmlFindings)
               /\ wellFormed(Val(result).advancedAnalysis.behavioralFindings)
               /\ wellFormed(Val(result).advancedAnalysis.sandboxFindings)
        /\ (mounted = "LAY" /\ ~IsNull(result)) =>
               \A n \in 1..Len(layerNames) :
                   wellFormed(Val(result).layers[layerNames[n]].findings)

\* C12: the red-flag list of every stored result is non-empty.
C12_RedFlagsNonEmpty ==
    /\ (mounted = "APD" /\ ~IsNull(result)) =>
           Len(Val(result).advancedAnalysis.keyRedFlags) > 0
    /\ (mounted = "CSA" /\ ~IsNull(result)) => Len(Val(result).keyRedFlags) > 0

\* C14: in the red-flag list of every stored result the infrastructure flags
\* come first, then the brand and visual flags, then the content flags, then
\* the certificate flags, then the reputation flags.
C14_RedFlagOrder ==
    LET category(flag) ==
            CASE flag[1] \in {"Tunnel service detected: ", "Hosted in high-risk country: "} -> 1
              [] flag[1] \in {"Brand impersonation detected", "UI cloning detected"} -> 2
              [] flag[1] \in {"Credential harvesting forms present",
                              "Obfuscated JavaScript detected",
                              "External data collection endpoints"} -> 3
              [] flag[1] = "Recently registered domain (< 30 days)" -> 5
              [] OTHER -> 4
        ordered(flags) ==
            \A i, j \in 1..Len(flags) : i < j => category(flags[i]) <= category(flags[j])
    IN  /\ (mounted = "APD" /\ ~IsNull(result)) =>
               ordered(Val(result).advancedAnalysis.keyRedFlags)
        /\ (mounted = "CSA" /\ ~IsNull(result)) => ordered(Val(result).keyRedFlags)

---------------------------------------------------------------------------
(* Properties of the scenarios: what an analysis stores for a given URL *)

\* C16: an analysis of a URL whose host is an IPv4 dotted quad stores a
\* result with hasIPAddress true (AdvancedPhishingDetector), a failing
\* URL-domain layer (layered agent), and a verdict of at least SUSPICIOUS.
C16_IPHostSuspicious ==
    [][(/\ IsNull(result) /\ ~IsNull(result')
        /\ ~IsNull(newURL(run.urlToAnalyze))
        /\ isDottedQuad(toLowerCase(Val(newURL(run.urlToAnalyze)).hostname))) =>
           /\ mounted = "APD" =>
                  /\ Val(result').features.hasIPAddress
                  /\ Val(result').advancedAnalysis.verdict
                         \in {"SUSPICIOUS", "CONFIRMED_PHISHING"}
           /\ mounted = "LAY" =>
                  /\ Val(result').layers.urlDomain.status = "FAIL"
                  /\ Val(result').verdict \in {"SUSPICIOUS", "PHISHING"}]_vars

\* C17: every result AdvancedPhishingDetector stores for https://google.com
\* has a risk score below 20 and the verdict LEGITIMATE.
C17_LegitimateBrandHost ==
    (/\ mounted = "APD" /\ ~IsNull(result)
     /\ Val(result).url = <<"https://", "google", ".", "com">>) =>
        /\ Val(result).riskScore < 20
        /\ Val(result).advancedAnalysis.verdict = "LEGITIMATE"

\* C18: every stored result whose host mimics a known brand and ends in a
\* suspicious TLD has the verdict CONFIRMED_PHISHING and threat level HIGH.
C18_BrandOnSuspiciousTLD ==
    /\ (/\ mounted = "APD" /\ ~IsNull(result)
        /\ Val(result).features.mimicsKnownSites /\ Val(result).features.suspiciousTLD) =>
           /\ Val(result).advancedAnalysis.verdict = "CONFIRMED_PHISHING"
           /\ Val(result).advancedAnalysis.threatLevel = "HIGH"
    /\ (/\ mounted = "CSA" /\ ~IsNull(result)
        /\ Val(result).features.mimicsKnownSites /\ Val(result).features.suspiciousTLD) =>
           /\ Val(result).verdict = "CONFIRMED_PHISHING"
           /\ Val(result).threatLevel = "HIGH"

\* C19: every stored result whose host contains a denylisted tunnel provider
\* has tunnelService set and isDynamicDomain true, a risk score that the
\* tunnel rule raised by at least 45 (up to the cap of 100), a risk score of
\* at least 75 and the verdict CONFIRMED_PHISHING.
C19_TunnelHost ==
    LET host(r) == toLowerCase(Val(newURL(r.url)).hostname)
        onDenylist(r, services) ==
            \E n \in 1..Len(services) : includes(host(r), services[n])
        untunnelled(r) == [r.features EXCEPT !.tunnelService = Null]
    IN  /\ (/\ mounted = "APD" /\ ~IsNull(result)
            /\ onDenylist(Val(result), APD_tunnelServices)) =>
               LET r == Val(result)
               IN  /\ ~IsNull(r.features.tunnelService)
                   /\ r.features.isDynamicDomain
                   /\ r.riskScore >=
                          mathMin(100, 45 + APD_calculateAdvancedRiskScore(
                                                untunnelled(r), r.certificate, r.brandAnalysis))
                   /\ r.riskScore >= 75
                   /\ r.advancedAnalysis.verdict = "CONFIRMED_PHISHING"
        /\ (/\ mounted = "CSA" /\ ~IsNull(result)
            /\ onDenylist(Val(result), CSA_tunnelServices)) =>
               LET r == Val(result)
               IN  /\ ~IsNull(r.features.tunnelService)
                   /\ r.features.isDynamicDomain
                   /\ r.riskScore >=
                          mathMin(100, 45 + CSA_calculateAdvancedRiskScore(
                                                untunnelled(r), r.certificate, r.ipInfo,
                                                r.whoisData))
                   /\ r.riskScore >= 75
                   /\ r.verdict = "CONFIRMED_PHISHING"

\* CybersecurityAgent has analysed https://abc123.ngrok.io with no other
\* signal raised: tunnel 45 and dynamic domain 30
C19_Witness ==
    /\ mounted = "CSA" /\ ~IsNull(result)
    /\ Val(result).url = <<"https://", "abc123", ".", "ngrok", ".", "io">>
    /\ Val(result).features.tunnelService = Some(<<"ngrok", ".", "io">>)
    /\ Val(result).riskScore = 75
    /\ Val(result).verdict = "CONFIRMED_PHISHING"

\* C20: handleSubmit of URLAnalyzer starts an analysis (onAnalyze) only of a
\* string that starts with http:// or https:// and parses as a URL; a submit
\* of an empty or blank input, or of one that does not parse with the scheme
\* in front, starts nothing and sets isValidUrl to false; and typing into the
\* input sets isValidUrl to true.
C20_SubmitValidates ==
    [][/\ (mounted = "APD" /\ run.pc = "idle" /\ run'.pc # "idle") =>
              /\ \/ startsWith(run'.urlToAnalyze, <<"http://">>)
                 \/ startsWith(run'.urlToAnalyze, <<"https://">>)
              /\ ~IsNull(newURL(run'.urlToAnalyze))
              /\ isValidUrl'
       /\ (UA_handleSubmit /\ (trim(url) = <<>> \/ IsNull(newURL(withScheme(url))))) =>
              /\ ~isValidUrl'
              /\ UNCHANGED <<isAnalyzing, result, run>>
       /\ UA_handleInputChange(url') => isValidUrl']_vars

\* a submit of "exa mple" was rejected: nothing runs and the input is marked
C20_Witness ==
    /\ mounted = "APD"
    /\ url = <<"exa", " ", "mple">>
    /\ ~isValidUrl
    /\ ~isAnalyzing /\ run = idleRun /\ IsNull(result)

---------------------------------------------------------------------------
(* SpecRec: the recommendation generators applied to every verdict and
   every combination of the signals they read *)

\* the calls of generateAdvancedRecommendations / generateRecommendations
recommendInputs(fn) ==
    IF fn = "APD.recommend"
    THEN {[fn |-> fn, verdict |-> v, features |-> f, certificate |-> c,
           brandAnalysis |-> [suspectedBrand |-> sb, brandImpersonation |-> bi],
           threatIntel |-> [reportedTimes |-> n], ipInfo |-> Null,
           returned |-> FALSE, recommendations |-> <<>>]
          : v \in {"LEGITIMATE", "SUSPICIOUS", "CONFIRMED_PHISHING"},
            f \in APD_signalInputs, c \in APD_certificateInputs,
            sb \in {Null, Some("PayPal")}, bi \in BOOLEAN, n \in {0, 5, 6}}
    ELSE {[fn |-> fn, verdict |-> v, features |-> f, certificate |-> [isValid |-> TRUE],
           brandAnalysis |-> [suspectedBrand |-> Null, brandImpersonation |-> FALSE],
           threatIntel |-> [reportedTimes |-> 0], ipInfo |-> ip,
           returned |-> FALSE, recommendations |-> <<>>]
          : v \in {"LEGITIMATE", "SUSPICIOUS", "CONFIRMED_PHISHING"},
            f \in CSA_signalInputs, ip \in ipInfoInputs}

FnRecommendAPD ==
    /\ call.fn = "APD.recommend" /\ ~call.returned
    /\ call' = [call EXCEPT
                   !.returned = TRUE,
                   !.recommendations =
                       APD_generateAdvancedRecommendations(
                           call.features, call.verdict # "LEGITIMATE", call.certificate,
                           call.brandAnalysis, call.threatIntel, call.verdict)]
    /\ UNCHANGED uiVars

FnRecommendCSA ==
    /\ call.fn = "CSA.recommend" /\ ~call.returned
    /\ call' = [call EXCEPT
                   !.returned = TRUE,
                   !.recommendations =
                       CSA_generateRecommendations(call.verdict, call.features, call.ipInfo)]
    /\ UNCHANGED uiVars

RecInit ==
    /\ \E fn \in {"APD.recommend", "CSA.recommend"} : call \in recommendInputs(fn)
    /\ uiIdle("none")

RecNext == FnRecommendAPD \/ FnRecommendCSA

SpecRec == RecInit /\ [][RecNext]_vars

\* C13: every call of a recommendation generator returns a non-empty list,
\* and it returns the single line "Maintain standard security practices"
\* exactly when the verdict is LEGITIMATE and none of the signals it reads
\* is raised.
C13_RecommendationsNonEmpty ==
    LET nothing ==
            /\ call.verdict = "LEGITIMATE"
            /\ IsNull(call.features.tunnelService)
            /\ call.features.credentialForms = 0
            /\ call.fn = "APD.recommend" =>
                   /\ ~call.brandAnalysis.brandImpersonation
                   /\ call.certificate.isValid
                   /\ call.threatIntel.reportedTimes <= 5
            /\ call.fn = "CSA.recommend" =>
                   (IsNull(call.ipInfo) \/ Val(call.ipInfo).country \notin suspiciousCountries)
    IN  (call.fn \in {"APD.recommend", "CSA.recommend"} /\ call.returned) =>
            /\ Len(call.recommendations) > 0
            /\ nothing <=>
                   call.recommendations = << <<"Maintain standard security practices">> >>

\* a LEGITIMATE verdict with no signal raised: the single standard line
C13_Witness ==
    /\ call.fn = "APD.recommend" /\ call.returned
    /\ call.verdict = "LEGITIMATE"
    /\ IsNull(call.features.tunnelService) /\ call.features.credentialForms = 0
    /\ ~call.brandAnalysis.brandImpersonation /\ call.certificate.isValid
    /\ call.threatIntel.reportedTimes = 5
    /\ call.recommendations = << <<"Maintain standard security practices">> >>

---------------------------------------------------------------------------
(* SpecOrd: lines 104-148 of analyzeURL of AdvancedPhishingDetector, one
   statement at a time.  call.pc is the number of the next statement: 1..5
   the five evaluators, 6 the feature object, 7 what follows. *)

\* new URL(urlToAnalyze) has returned and no layer has been evaluated
OrdInit ==
    /\ call \in {[fn |-> "APD.analyzeURL", pc |-> 1, urlToAnalyze |-> withScheme(text),
                  d |-> d, infrastructureResult |-> Null, visualResult |-> Null,
                  htmlResult |-> Null, behavioralResult |-> Null, sandboxResult |-> Null,
                  features |-> Null]
                 : text \in {t \in typedTexts : ~IsNull(newURL(withScheme(t)))}, d \in Draws}
    /\ uiIdle("none")

\* lines 113-126: const <layer>Result = <evaluator>(urlObj)
OrdEvaluate ==
    /\ call.fn = "APD.analyzeURL" /\ call.pc \in 1..5
    /\ LET urlObj == Val(newURL(call.urlToAnalyze))
       IN  call' =
               CASE call.pc = 1 ->
                        [call EXCEPT !.pc = 2, !.infrastructureResult =
                                                   Some(APD_analyzeInfrastructure(urlObj))]
                 [] call.pc = 2 ->
                        [call EXCEPT !.pc = 3, !.visualResult =
                                                   Some(APD_analyzeVisuals(urlObj, call.d))]
                 [] call.pc = 3 ->
                        [call EXCEPT !.pc = 4, !.htmlResult =
                                                   Some(APD_analyzeHTML(urlObj, call.d))]
                 [] call.pc = 4 ->
                        [call EXCEPT !.pc = 5, !.behavioralResult =
                                                   Some(APD_simulateBehavior(urlObj, call.d))]
                 [] call.pc = 5 ->
                        [call EXCEPT !.pc = 6, !.sandboxResult =
                                                   Some(APD_executeSandbox(urlObj, call.d))]
    /\ UNCHANGED uiVars

\* lines 129-148: const features = { ... }
OrdExtractFeatures ==
    /\ call.fn = "APD.analyzeURL" /\ call.pc = 6
    /\ call' = [call EXCEPT
                   !.pc = 7,
                   !.features =
                       Some(APD_features(call.urlToAnalyze, Val(newURL(call.urlToAnalyze)),
                                         Val(call.infrastructureResult),
                                         Val(call.htmlResult), call.d))]
    /\ UNCHANGED uiVars

OrdNext == OrdEvaluate \/ OrdExtractFeatures

SpecOrd == OrdInit /\ [][OrdNext]_vars

\* C15: within one analysis no layer evaluator has been called while the
\* feature set is not yet built.
C15_FeaturesBeforeEvaluators ==
    (call.fn = "APD.analyzeURL" /\ IsNull(call.features)) =>
        /\ IsNull(call.infrastructureResult)
        /\ IsNull(call.visualResult)
        /\ IsNull(call.htmlResult)
        /\ IsNull(call.behavioralResult)
        /\ IsNull(call.sandboxResult)

---------------------------------------------------------------------------
(* SpecLib: the brand-mimicry checks, the six layers with their aggregation,
   the assembly of the CybersecurityAgent result and the label functions,
   applied to every element of their input sets *)

\* lines 726-730 of the PhishingDetector variant
P0_legitimateSites ==
    <<"google", "facebook", "amazon", "microsoft", "apple", "paypal", "netflix",
      "instagram", "twitter", "linkedin", "ebay", "yahoo", "gmail", "outlook",
      "spotify", "youtube", "dropbox", "adobe", "salesforce", "zoom">>

\* site.replace(from, to) with a string pattern: the first occurrence of the
\* character is replaced, and a site without the character is returned as it is
P0_replace(site, from) ==
    LET firstOccurrence ==
            [google     |-> [o |-> "g0ogle", e |-> "googl3", l |-> "goog1e"],
             facebook   |-> [o |-> "faceb0ok", e |-> "fac3book", a |-> "f@cebook"],
             amazon     |-> [o |-> "amaz0n", a |-> "@mazon"],
             microsoft  |-> [o |-> "micr0soft", i |-> "m1crosoft"],
             apple      |-> [e |-> "appl3", a |-> "@pple", l |-> "app1e"],
             paypal     |-> [a |-> "p@ypal", l |-> "paypa1"],
             netflix    |-> [e |-> "n3tflix", i |-> "netfl1x", l |-> "netf1ix"],
             instagram  |-> [a |-> "inst@gram", i |-> "1nstagram"],
             twitter    |-> [e |-> "twitt3r", i |-> "tw1tter"],
             linkedin   |-> [e |-> "link3din", i |-> "l1nkedin", l |-> "1inkedin"],
             ebay       |-> [e |-> "3bay", a |-> "eb@y"],
             yahoo      |-> [o |-> "yah0o", a |-> "y@hoo"],
             gmail      |-> [a |-> "gm@il", i |-> "gma1l", l |-> "gmai1"],
             outlook    |-> [o |-> "0utlook", l |-> "out1ook"],
             spotify    |-> [o |-> "sp0tify", i |-> "spot1fy"],
             youtube    |-> [o |-> "y0utube", e |-> "youtub3"],
             dropbox    |-> [o |-> "dr0pbox"],
             adobe      |-> [o |-> "ad0be", e |-> "adob3", a |-> "@dobe"],
             salesforce |-> [o |-> "salesf0rce", e |-> "sal3sforce", a |-> "s@lesforce",
                             l |-> "sa1esforce"],
             zoom       |-> [o |-> "z0om"]]
    IN  IF from \in DOMAIN firstOccurrence[site] THEN firstOccurrence[site][from] ELSE site

\* lines 725-761 of the PhishingDetector variant
P0_checkForMimickedSites(domain) ==
    \E n \in 1..Len(P0_legitimateSites) :
        LET site == P0_legitimateSites[n]
            variations ==
                << <<P0_replace(site, "o")>>, <<P0_replace(site, "e")>>,
                   <<P0_replace(site, "a")>>, <<P0_replace(site, "i")>>,
                   <<P0_replace(site, "l")>>,
                   <<site, "-">>, <<"-", site>>, <<site, "1">>,
                   <<"secure", site>>, <<site, "secure">>,
                   <<"verify", site>>, <<site, "verify">> >>
        IN  \/ /\ includes(domain, <<site>>)
               /\ ~endsWith(domain, <<site, ".", "com">>)
               /\ ~endsWith(domain, <<site, ".", "net">>)
               /\ ~endsWith(domain, <<site, ".", "org">>)
            \/ \E v \in 1..Len(variations) : includes(domain, variations[v])

\* the hosts the two checks are applied to: for every listed site its own
\* .com, .net and .org hosts, the www host, hosts with an affix, a host on
\* another TLD and the hosts with one character substituted
mimicInputs(fn) ==
    LET hostsOf(site) ==
            {<<site, ".", "com">>, <<"www", ".", site, ".", "com">>,
             <<site, ".", "net">>, <<site, ".", "org">>, <<site, ".", "tk">>,
             <<"secure", "-", site, ".", "com">>, <<site, "-", "verify", ".", "com">>,
             <<"secure", site, ".", "com">>, <<site, "1", ".", "com">>}
            \cup {<<P0_replace(site, c), ".", "com">> : c \in {"o", "e", "a", "i", "l"}}
        hosts ==
            UNION {hostsOf(P0_legitimateSites[n]) : n \in 1..Len(P0_legitimateSites)}
            \cup {<<"example", ".", "com">>, <<"www", ".", "example", ".", "org">>}
    IN  {[fn |-> fn, domain |-> h, returned |-> FALSE, value |-> FALSE] : h \in hosts}

FnMimicP0 ==
    /\ call.fn = "P0.checkForMimickedSites" /\ ~call.returned
    /\ call' = [call EXCEPT !.returned = TRUE,
                            !.value = P0_checkForMimickedSites(call.domain)]
    /\ UNCHANGED uiVars

FnMimicAPD ==
    /\ call.fn = "APD.checkForMimickedSites" /\ ~call.returned
    /\ call' = [call EXCEPT !.returned = TRUE,
                            !.value = APD_checkForMimickedSites(call.domain)]
    /\ UNCHANGED uiVars

\* the inputs of the layers: a host with every brand and every keyword on a
\* suspicious TLD with an "@" in the path, the example hosts, each auxiliary
\* field empty or filled, and every outcome of the draws
layerInputs ==
    LET loaded ==
            <<"http://", "google", "-", "facebook", "-", "amazon", "-", "microsoft", "-",
              "apple", "-", "paypal", ".", "secure", "-", "verify", "-", "account", "-",
              "update", "-", "suspended", ".", "x", ".", "tk", "/", "a", "@", "b">>
        urls == {loaded, <<"https://", "example", ".", "com">>,
                 <<"http://", "192", ".", "168", ".", "1", ".", "1", "/", "login">>,
                 <<"https://", "paypal", "-", "secure", "-", "verify", ".", "tk", "/",
                   "account">>}
        html == <<passwordInput, "eval(", hiddenInput>>
        draws == [ipReputation : BOOLEAN, invalidCertificate : BOOLEAN,
                  visualSimilarity : BOOLEAN, blacklisted : BOOLEAN,
                  malwareActivity : BOOLEAN, daysSinceCreation : {10, 200}]
    IN  {[fn |-> "LAY.performLayeredAnalysis", urlObj |-> Val(newURL(u)),
          input |-> [ipAddress |-> ip, hostingCountry |-> c, htmlContent |-> h],
          d |-> d, returned |-> FALSE, value |-> Null]
         : u \in urls, ip \in {<<>>, <<"203.0.113.7">>}, c \in {<<>>, <<"Russia">>},
           h \in {<<>>, html}, d \in draws}

\* lines 110-131 of the layered agent: the six layers and the aggregation
FnLayers ==
    /\ call.fn = "LAY.performLayeredAnalysis" /\ ~call.returned
    /\ call' = [call EXCEPT !.returned = TRUE,
                            !.value = Some(LAY_analysis(call.urlObj, call.input, call.d))]
    /\ UNCHANGED uiVars

\* the values analyzeURL has after its stage loop: the URL and the draws,
\* and in CybersecurityAgent the two lookup results Promise.all resolved to
analysisInputs(fn) ==
    LET urls == {<<"https://", "example", ".", "com">>,
                 <<"http://", "example", ".", "com">>,
                 <<"https://", "example", ".", "tk">>,
                 <<"https://", "abc123", ".", "ngrok", ".", "io">>,
                 <<"https://", "dropbox", "-", "login", ".", "com">>,
                 <<"https://", "paypal", "-", "secure", "-", "verify", ".", "tk", "/",
                   "account">>}
    IN  {[fn |-> fn, urlToAnalyze |-> u, ipInfo |-> ip, whoisData |-> w,
          d |-> d, returned |-> FALSE, value |-> Null]
         : u \in urls,
           ip \in IF fn = "CSA.analyzeURL" THEN ipInfoInputs ELSE {Null},
           w \in IF fn = "CSA.analyzeURL" THEN whoisInputs \ {Null} ELSE {Null},
           d \in Draws}

\* lines 113-216 of AdvancedPhishingDetector: from the evaluators to analysisResult
FnAnalysisAPD ==
    /\ call.fn = "APD.analyzeURL" /\ ~call.returned
    /\ call' = [call EXCEPT
                   !.returned = TRUE,
                   !.value = Some(APD_analysis(call.urlToAnalyze,
                                               Val(newURL(call.urlToAnalyze)), call.d))]
    /\ UNCHANGED uiVars

\* lines 283-310 of CybersecurityAgent: from the features to analysisResult
FnAnalysisCSA ==
    /\ call.fn = "CSA.analyzeURL" /\ ~call.returned
    /\ call' = [call EXCEPT
                   !.returned = TRUE,
                   !.value = Some(CSA_analysis(call.urlToAnalyze,
                                               Val(newURL(call.urlToAnalyze)),
                                               call.ipInfo, call.whoisData, call.d))]
    /\ UNCHANGED uiVars

\* lines 490-494 of the advanced agent variant
P3_getAdvancedVerdict(score) ==
    IF score >= 75 THEN "CONFIRMED_PHISHING"
    ELSE IF score >= 40 THEN "SUSPICIOUS"
    ELSE "LEGITIMATE"

\* getAdvancedThreatLevel with MEDIUM starting at the 45 of isPhishing
P3_getAdvancedThreatLevel_from45(score) ==
    IF score >= 70 THEN "HIGH"
    ELSE IF score >= 45 THEN "MEDIUM"
    ELSE "LOW"

\* lines 496-500 of the advanced agent variant
P3_getAdvancedThreatLevel(score) ==
    IF score >= 70 THEN "HIGH"
    ELSE IF score >= 35 THEN "MEDIUM"
    ELSE "LOW"

\* the two labels of one score, as analyzeURL of the advanced agent variant
\* computes them
FnClassifyP3 ==
    /\ call.fn = "P3.classify" /\ ~call.returned
    /\ call' = [call EXCEPT !.returned = TRUE,
                            !.verdict = P3_getAdvancedVerdict(call.score),
                            !.threatLevel = P3_getAdvancedThreatLevel(call.score)]
    /\ UNCHANGED uiVars

\* lines 121-122 of the layered agent: the two labels of one weighted score
FnClassifyLAY ==
    /\ call.fn = "LAY.classify" /\ ~call.returned
    /\ call' = [call EXCEPT !.returned = TRUE,
                            !.verdict = LAY_getVerdict(call.score),
                            !.threatLevel = LAY_getThreatLevel(call.score)]
    /\ UNCHANGED uiVars

LibInit ==
    /\ \/ \E fn \in {"P0.checkForMimickedSites", "APD.checkForMimickedSites"} :
              call \in mimicInputs(fn)
       \/ call \in layerInputs
       \/ \E fn \in {"APD.analyzeURL", "CSA.analyzeURL"} : call \in analysisInputs(fn)
       \/ \E fn \in {"APD.classify", "CSA.classify"} : call \in classifyInputs(fn)
       \/ \E score \in 0..100 :
              call = [fn |-> "P3.classify", score |-> score, returned |-> FALSE,
                      verdict |-> "", threatLevel |-> ""]
       \* a weighted score is a multiple of 0.25, in hundredths
       \/ \E k \in 0..400 :
              call = [fn |-> "LAY.classify", score |-> 25 * k, returned |-> FALSE,
                      verdict |-> "", threatLevel |-> ""]
    /\ uiIdle("none")

LibNext ==
    \/ FnMimicP0 \/ FnMimicAPD
    \/ FnLayers \/ FnAnalysisAPD \/ FnAnalysisCSA
    \/ FnClassifyAPD \/ FnClassifyCSA \/ FnClassifyLAY \/ FnClassifyP3

SpecLib == LibInit /\ [][LibNext]_vars

\* C21: checkForMimickedSites returns true only for a host that contains the
\* token of a listed brand without ending in brand.com, brand.net or
\* brand.org, or that contains a variant of a listed brand (one character
\* substituted, or a hyphen, "1", "secure" or "verify" attached); and it
\* returns false for the host brand.com and the host www.brand.com of a
\* listed brand.
C21_MimickedSites ==
    LET listed ==
            IF call.fn = "P0.checkForMimickedSites"
            THEN {P0_legitimateSites[n] : n \in 1..Len(P0_legitimateSites)}
            ELSE legitimateSites
        substituted(site) ==
            {P0_replace(site, c) : c \in {"o", "e", "a", "i", "l"}} \ {site}
        variants(site) ==
            {<<s>> : s \in substituted(site)}
            \cup {<<site, "-">>, <<"-", site>>, <<site, "1">>, <<"secure", site>>,
                  <<site, "secure">>, <<"verify", site>>, <<site, "verify">>}
        tokenOffBrandHost(site) ==
            /\ includes(call.domain, <<site>>)
            /\ \A tld \in {"com", "net", "org"} : ~endsWith(call.domain, <<site, ".", tld>>)
    IN  (call.fn \in {"P0.checkForMimickedSites", "APD.checkForMimickedSites"}
         /\ call.returned) =>
            /\ call.value =>
                   \E site \in listed :
                       \/ tokenOffBrandHost(site)
                       \/ \E v \in variants(site) : includes(call.domain, v)
            /\ (\E site \in listed :
                    call.domain \in {<<site, ".", "com">>, <<"www", ".", site, ".", "com">>})
                   => ~call.value

---------------------------------------------------------------------------
(* Properties of the scoring functions, continued (SpecFn) *)

\* C22: a host that mimics a known brand adds at most 40 points to the raw
\* score: a call of calculateAdvancedRiskScore of AdvancedPhishingDetector
\* for a host that does not mimic a brand, and the call that differs from it
\* only in that the host mimics one (mimicsKnownSites, and with it
\* brandImpersonation, line 162), return scores at most 40 apart when the
\* second sum is below 100.
C22_BrandMimicryOnce ==
    (/\ scored /\ call.fn = "APD.score"
     /\ ~call.features.mimicsKnownSites
     /\ ~call.brandAnalysis.brandImpersonation) =>
        LET mimicking == withRule("brand", withRule("mimics", call))
            raw == APD_calculateAdvancedRiskScore_uncapped(
                       mimicking.features, mimicking.certificate, mimicking.brandAnalysis)
        IN  raw < 100 => scoreOf(mimicking) - call.riskScore <= 40

\* C23: in every result of the layered agent each layer's score is within
\* 0..100, and phishingScore is the rounded sum over the six layers of
\* score x weight and is within 0..100.
C23_WeightedScoreBounded ==
    (call.fn = "LAY.performLayeredAnalysis" /\ call.returned) =>
        LET r == Val(call.value)
            l == r.layers
            sum == l.urlDomain.score * 25 + l.ipGeoLocation.score * 15
                   + l.sslSecurity.score * 20 + l.htmlAnalysis.score * 15
                   + l.visualBrand.score * 15 + l.threatIntel.score * 30
        IN  /\ DOMAIN l = {layerNames[n] : n \in 1..Len(layerNames)}
            /\ \A name \in DOMAIN l : l[name].score \in 0..100
            /\ r.phishingScore = (sum + 50) \div 100
            /\ r.phishingScore \in 0..100

\* every signal of every layer raised: two layers are cut to 100 and the
\* weighted sum is 90.5
C23_Witness ==
    /\ call.fn = "LAY.performLayeredAnalysis" /\ call.returned
    /\ Val(call.value).layers.urlDomain.score = 100
    /\ Val(call.value).layers.visualBrand.score = 100
    /\ Val(call.value).layers.threatIntel.score = 85
    /\ Val(call.value).phishingScore = 91

---------------------------------------------------------------------------
(* Properties of the components, continued (Spec) *)

C25_UnknownDomainAge ==
    (mounted = "CSA" /\ ~IsNull(result)) =>
        LET r == Val(result)
            unavailable == \/ IsNull(r.whoisData)
                           \/ ~Val(r.whoisData).registrationDate.parsable
        IN  unavailable =>
                /\ r.features.domainAge = "Unknown"
                /\ r.riskScore = CSA_calculateAdvancedRiskScore(r.features, r.certificate,
                                                               r.ipInfo, Null)
                /\ \A i \in 1..Len(r.keyRedFlags) :
                       r.keyRedFlags[i] # <<"Recently registered domain (< 30 days)">>

\* C26: in every result of CybersecurityAgent, threatIntel.threatCategories
\* is non-empty exactly when isPhishing is true.
C26_ThreatIntelAgrees ==
    (call.fn = "CSA.analyzeURL" /\ call.returned) =>
        (Len(Val(call.value).threatIntel.threatCategories) > 0
             <=> Val(call.value).isPhishing)

\* C27: in every result of AdvancedPhishingDetector, brandImpersonation
\* implies that suspectedBrand is not null, so the recommendation
\* "Suspected impersonation of ..." names a brand.
C27_ImpersonationNamesBrand ==
    (call.fn = "APD.analyzeURL" /\ call.returned) =>
        LET r == Val(call.value)
        IN  /\ r.brandAnalysis.brandImpersonation => ~IsNull(r.brandAnalysis.suspectedBrand)
            /\ \A i \in 1..Len(r.recommendations) :
                   r.recommendations[i][1] = "Suspected impersonation of " =>
                       r.recommendations[i][2] # "null"

\* C28: in every result of AdvancedPhishingDetector, isPhishing is true
\* exactly when the verdict is SUSPICIOUS or CONFIRMED_PHISHING.
C28_FlagMatchesVerdict ==
    (call.fn = "APD.analyzeURL" /\ call.returned) =>
        (Val(call.value).isPhishing
             <=> Val(call.value).advancedAnalysis.verdict
                     \in {"SUSPICIOUS", "CONFIRMED_PHISHING"})

\* C29: in each of the four variants that compute both labels, for every
\* score from 0 to 100 a phishing verdict (CONFIRMED_PHISHING or PHISHING)
\* comes with threat level HIGH, and threat level LOW comes with the verdict
\* LEGITIMATE.
C29_LabelsConsistent ==
    (call.fn \in {"APD.classify", "CSA.classify", "LAY.classify", "P3.classify"}
     /\ call.returned) =>
        /\ call.verdict \in {"CONFIRMED_PHISHING", "PHISHING"} => call.threatLevel = "HIGH"
        /\ call.threatLevel = "LOW" => call.verdict = "LEGITIMATE"

\* the advanced agent variant at 72: already HIGH, still SUSPICIOUS
C29_Witness ==
    /\ call.fn = "P3.classify" /\ call.returned
    /\ call.score = 72
    /\ call.threatLevel = "HIGH" /\ call.verdict = "SUSPICIOUS"

\* C30: at most one analysis is in flight in a component.  While isAnalyzing
\* is true an analysis is in flight, no result is on screen (so no reset
\* button), and the URL and the auxiliary inputs do not change; an analysis
\* starts only when none is in flight; and a result is written only by the
\* analysis in flight, which then ends, and it carries the URL that analysis
\* was started with, which is the URL last submitted.
C30_OneAnalysisInFlight ==
    [][/\ isAnalyzing <=> run.pc # "idle"
       /\ isAnalyzing => (IsNull(result) /\ url' = url /\ aux' = aux)
       /\ (run' # run /\ run'.pc = "stages" /\ run'.i = 0) =>
              (~isAnalyzing /\ run.pc = "idle" /\ isAnalyzing')
       /\ (result' # result /\ ~IsNull(result')) =>
              /\ isAnalyzing /\ ~isAnalyzing' /\ run'.pc = "idle"
              /\ mounted = "APD" => Val(result').url = withScheme(url)
              /\ mounted = "CSA" => Val(result').url = url
              /\ mounted \in {"APD", "CSA"} => Val(result').url = run.urlToAnalyze]_vars

\* the result of a finished analysis of AdvancedPhishingDetector for the
\* typed text example.com
C30_Witness ==
    /\ mounted = "APD" /\ ~isAnalyzing /\ run.pc = "idle"
    /\ url = <<"example", ".", "com">>
    /\ ~IsNull(result)
    /\ Val(result).url = <<"https://", "example", ".", "com">>

=============================================================================
